---- MODULE Spec2Model ----
(***************************************************************************)
(* Trip Sniper: the offer pipeline (fetch, combine, filter by visibility,  *)
(* score, upsert, commit) of src/trip_sniper/pipeline.py with the scoring  *)
(* engine of src/trip_sniper/scoring and the Amadeus flight source.        *)
(*                                                                         *)
(* Time is counted in whole hours since 2024-01-01T00:00 (UTC); a datetime *)
(* is an integer number of hours and its calendar day is hours \div 24.    *)
(* Floats are modelled by exact rationals <<numerator, denominator>>.      *)
(***************************************************************************)
EXTENDS Integers, Sequences, FiniteSets, TLC

VARIABLES
    flight_destinations,  \* run_pipeline argument
    hotel_destinations,   \* run_pipeline argument
    dates,                \* run_pipeline argument
    flights_only,         \* run_pipeline argument
    hotels_enabled,       \* env HOTELS_ENABLED != "0"
    async_mode,           \* env ASYNC_FETCH == "1"
    upstream,             \* what the Amadeus API answers for each airport
    now,                  \* the wall clock, datetime.utcnow()
    store,                \* committed rows of table "offers"
    session,              \* rows as the open Session sees them
    hotel_fetcher,        \* "None" or "BookingFetcher" (pipeline.py:155)
    pc,                   \* position of the run
    i,                    \* index into zip_longest(flight_, hotel_destinations)
    j,                    \* index into dates
    k,                    \* index into offers
    flights,              \* flights fetched for the current pair and date
    hotels,               \* hotels fetched for the current pair and date
    offers,               \* offers of the current pair and date
    error,                \* the exception that ended the run, "" if none
    runs,                 \* number of runs started
    log,                  \* history of the current run (observation only)
    env_json,             \* env STEAL_SCORE_WEIGHTS, as json.loads sees it
    weights_file,         \* the file env STEAL_SCORE_WEIGHTS_FILE names
    imported,             \* scoring/steal_score.py has been imported
    weights,              \* steal_score.weights, the module-level table
    defaults,             \* the dict object DEFAULT_WEIGHTS
    built,                \* the last attempt to construct an Offer
    call,                 \* the last call of steal_score
    prev,                 \* the call of steal_score before it
    reply,                \* the last answer of GET /offers
    tasks,                \* fetches started by _gather_offers and not yet finished
    fetch,                \* the fetch_offers call in progress, attempt by attempt
    environ               \* os.environ: what is set of the configuration

vars == <<flight_destinations, hotel_destinations, dates, flights_only,
          hotels_enabled, async_mode, upstream, now, store, session,
          hotel_fetcher, pc, i, j, k, flights, hotels, offers, error, runs, log,
          env_json, weights_file, imported, weights, defaults, built, call,
          prev, reply, tasks, fetch, environ>>

config == <<flight_destinations, hotel_destinations, dates, flights_only,
            hotels_enabled, async_mode, upstream, environ>>

\* the scoring module, the Offer constructor and the read API, which no step
\* of a run assigns
scoring == <<env_json, weights_file, imported, weights, defaults, built, call,
             prev, reply>>

\* the fetches followed step by step, which the actions that take a fetch
\* as one step do not assign
stepwise == <<tasks, fetch>>

\* everything a run of the pipeline assigns, the clock apart
pipeline == <<config, store, session, hotel_fetcher, pc, i, j, k, flights,
              hotels, offers, error, runs, log, stepwise>>

-----------------------------------------------------------------------------
(* Bounds of the model *)

MaxDests == 2    \* longest destination list
MaxTime == 1     \* hours the clock may advance
MaxRuns == 2     \* runs of the pipeline in one behaviour
MaxOffers == 2   \* longest fetched list handed to the combiner directly
MaxPages == 3    \* most pages the Skyscanner upstream holds for one search

Min(a, b) == IF a < b THEN a ELSE b
Max(a, b) == IF a > b THEN a ELSE b

-----------------------------------------------------------------------------
(* Exact rationals standing for Python floats *)

RECURSIVE Gcd(_, _)
Gcd(a, b) == IF b = 0 THEN a ELSE Gcd(b, a % b)

Abs(a) == IF a < 0 THEN -a ELSE a

\* float("nan"): every operation on it gives it back, every comparison with
\* it is false.  No division by a zero float is reachable: each divisor in
\* scoring/features.py is a non-zero literal or is guarded (lines 38, 51, 101,
\* 108).
NaN == <<0, 0>>

Rat(n, d) ==
    IF d = 0 THEN NaN
    ELSE LET s == IF d < 0 THEN -1 ELSE 1
             g == Gcd(Abs(n), Abs(d))
         IN  <<(s * n) \div g, (s * d) \div g>>

R(n) == <<n, 1>>
RAdd(a, b) == Rat(a[1] * b[2] + b[1] * a[2], a[2] * b[2])
RSub(a, b) == Rat(a[1] * b[2] - b[1] * a[2], a[2] * b[2])
RMul(a, b) == Rat(a[1] * b[1], a[2] * b[2])
RDiv(a, b) == Rat(a[1] * b[2], a[2] * b[1])
RLt(a, b) == a[2] # 0 /\ b[2] # 0 /\ a[1] * b[2] < b[1] * a[2]
RLe(a, b) == a[2] # 0 /\ b[2] # 0 /\ a[1] * b[2] <= b[1] * a[2]
\* min(a, b) and max(a, b) return a unless b is strictly beyond it
RMin(a, b) == IF RLt(b, a) THEN b ELSE a
RMax(a, b) == IF RLt(a, b) THEN b ELSE a

-----------------------------------------------------------------------------
(* models.py: Offer *)

\* faulty variant: the check of stars is missing
OfferValid_no_stars(o) ==
    /\ ~(o.price_per_person < 0)
    /\ ~(o.avg_price < 0)
    /\ ~(o.hotel_rating < 0)
    /\ ~(o.distance_from_beach < 0)
    /\ ~(o.total_duration < 0)
    /\ ~(o.attraction_score < 0)

\* Offer.__post_init__: construction succeeds iff none of the seven numeric
\* fields is negative.
OfferValid(o) ==
    /\ ~(o.price_per_person < 0)
    /\ ~(o.avg_price < 0)
    /\ ~(o.hotel_rating < 0)
    /\ ~(o.stars < 0)
    /\ ~(o.distance_from_beach < 0)
    /\ ~(o.total_duration < 0)
    /\ ~(o.attraction_score < 0)

\* datetime.date(): the calendar day of a datetime, time of day dropped
DateOf(dt) == dt \div 24

-----------------------------------------------------------------------------
(* scoring/features.py *)

_clamp(value) ==
    IF RLt(value, R(0)) THEN R(0)
    ELSE IF RLt(R(100), value) THEN R(100)
    ELSE value

discount_pct(offer) ==
    LET avg == offer.avg_price
    IN  IF avg <= 0 THEN R(0)
        ELSE _clamp(RMul(Rat(avg - offer.price_per_person, avg), R(100)))

\* price_limit is a rational
absolute_price_score(offer, price_limit) ==
    IF RLe(price_limit, R(0)) THEN R(0)
    ELSE _clamp(RMul(RSub(R(1), RDiv(R(offer.price_per_person), price_limit)), R(100)))

hotel_quality(offer) ==
    LET rating_score == _clamp(RMul(Rat(offer.hotel_rating, 10), R(60)))
        star_score == _clamp(RMul(Rat(offer.stars, 5), R(40)))
    IN  _clamp(RAdd(rating_score, star_score))

DurationLimit == 720

flight_comfort(offer) ==
    LET duration_factor == RMax(R(0), RSub(R(1), Rat(offer.total_duration, DurationLimit)))
        direct_bonus == IF offer.direct THEN R(20) ELSE R(0)
    IN  _clamp(RAdd(RMul(duration_factor, R(80)), direct_bonus))

UrgencyDays == 30

\* timedelta.days is the floor of the difference in days
urgency_score(offer, t) ==
    LET d0 == (offer.date - t) \div 24
        days == IF d0 < 0 THEN 0 ELSE d0
    IN  _clamp(RMul(RSub(R(1), Rat(Min(days, UrgencyDays), UrgencyDays)), R(100)))

NoveltyHours == 24

novelty_score(offer, t) ==
    LET h0 == t - offer.visible_from
        hours == IF h0 < 0 THEN 0 ELSE h0
    IN  _clamp(RMul(RSub(R(1), Rat(Min(hours, NoveltyHours), NoveltyHours)), R(100)))

\* A preference value: absent from the mapping (tag "none"), a number (tag
\* "num"), a collection of locations (tag "list"), float("nan") or the text
\* "nan" (tag "nan", which float() accepts and int() rejects) or anything
\* float() and int() both reject (tag "bad").
NoValue == [tag |-> "none", val |-> 0]
NoLocations == [tag |-> "none", val |-> {}]
NoPrefs == [locations |-> NoLocations, max_price |-> NoValue, min_stars |-> NoValue]

\* float(x) / int(x) of a preference value: raises unless x is a number
Parses(x) == x.tag = "num"

\* float(x) of a preference value succeeds
ParsesFloat(x) == Parses(x) \/ x.tag = "nan"

\* the float it gives
FloatOf(x) == IF x.tag = "nan" THEN NaN ELSE R(x.val)

\* faulty variant: one try block around both conversions, so a max_price that
\* float() rejects also loses the share of min_stars
category_match_abort(offer, user_prefs) ==
    LET loc == user_prefs.locations
        s1 == IF loc.tag = "list" /\ offer.location \in loc.val THEN R(40) ELSE R(0)
        mp == user_prefs.max_price
        s2 == IF Parses(mp) /\ mp.val > 0
              THEN _clamp(RMul(RSub(R(1), Rat(offer.price_per_person, mp.val)), R(30)))
              ELSE R(0)
        ms == user_prefs.min_stars
        s3 == IF ParsesFloat(mp) /\ Parses(ms) /\ ms.val > 0
              THEN _clamp(IF offer.stars >= ms.val THEN R(30)
                          ELSE RMul(Rat(offer.stars, ms.val), R(30)))
              ELSE R(0)
    IN  _clamp(RAdd(RAdd(s1, s2), s3))

category_match(offer, user_prefs) ==
    LET loc == user_prefs.locations
        s1 == IF loc.tag = "list" /\ offer.location \in loc.val THEN R(40) ELSE R(0)
        mp == user_prefs.max_price
        s2 == IF Parses(mp) /\ mp.val > 0
              THEN _clamp(RMul(RSub(R(1), Rat(offer.price_per_person, mp.val)), R(30)))
              ELSE R(0)
        ms == user_prefs.min_stars
        s3 == IF Parses(ms) /\ ms.val > 0
              THEN _clamp(IF offer.stars >= ms.val THEN R(30)
                          ELSE RMul(Rat(offer.stars, ms.val), R(30)))
              ELSE R(0)
    IN  _clamp(RAdd(RAdd(s1, s2), s3))

-----------------------------------------------------------------------------
(* scoring/steal_score.py *)

FeatureNames == {"discount_pct", "absolute_price_score", "hotel_quality",
                 "flight_comfort", "urgency_score", "novelty_score",
                 "category_match"}

DEFAULT_WEIGHTS ==
    [name \in FeatureNames |->
        CASE name = "discount_pct" -> Rat(25, 100)
          [] name = "absolute_price_score" -> Rat(20, 100)
          [] name = "hotel_quality" -> Rat(20, 100)
          [] name = "flight_comfort" -> Rat(15, 100)
          [] name = "urgency_score" -> Rat(5, 100)
          [] name = "novelty_score" -> Rat(5, 100)
          [] name = "category_match" -> Rat(10, 100)]

\* A source of weight overrides as json.loads / json.load meets it: the
\* setting is unset or empty (tag "unset"), the text does not parse or the
\* file cannot be read (tag "bad"), the JSON value is not an object (tag
\* "other"), or it is an object (tag "object") whose val maps each key to a
\* value float() converts (tag "num", val the float) or rejects (tag "bad").
Unset == [tag |-> "unset", val |-> <<>>]
Unparseable == [tag |-> "bad", val |-> <<>>]
NotAnObject == [tag |-> "other", val |-> <<>>]
Num(v) == [tag |-> "num", val |-> v]
NotANumber == [tag |-> "bad", val |-> R(0)]
Object(d) == [tag |-> "object", val |-> d]

\* {k: float(v) for k, v in data.items()} raises nothing
Converts(d) == \A key \in DOMAIN d : d[key].tag = "num"

\* weights.update({k: float(v) for k, v in data.items()})
Updated(w, d) ==
    [name \in (DOMAIN w) \cup (DOMAIN d) |->
        IF name \in DOMAIN d THEN d[name].val ELSE w[name]]

\* the source is applied: json gave a dict and every value converted
Applies(source) == source.tag = "object" /\ Converts(source.val)

\* faulty variant: the entries are converted and stored one at a time, so the
\* ones before a value float() rejects stay in the table
_load_weights_partial(dflt, inline, file) ==
    LET Good(d) == [key \in {x \in DOMAIN d : d[x].tag = "num"} |-> d[key]]
        w1 == IF inline.tag = "object" THEN Updated(dflt, Good(inline.val)) ELSE dflt
    IN  IF Applies(inline) THEN [weights |-> w1, defaults |-> dflt]
        ELSE IF file.tag = "object"
        THEN [weights |-> Updated(w1, Good(file.val)), defaults |-> dflt]
        ELSE [weights |-> w1, defaults |-> dflt]

\* faulty variant: the table is DEFAULT_WEIGHTS itself, not a copy of it
_load_weights_alias(dflt, inline, file) ==
    LET w == IF Applies(inline) THEN Updated(dflt, inline.val)
             ELSE IF Applies(file) THEN Updated(dflt, file.val)
             ELSE dflt
    IN  [weights |-> w, defaults |-> w]

\* _load_weights() with DEFAULT_WEIGHTS holding dflt: the table it returns
\* and what DEFAULT_WEIGHTS holds afterwards
_load_weights(dflt, inline, file) ==
    LET copy == dflt
    IN  IF Applies(inline)
        THEN [weights |-> Updated(copy, inline.val), defaults |-> dflt]
        ELSE IF Applies(file)
        THEN [weights |-> Updated(copy, file.val), defaults |-> dflt]
        ELSE [weights |-> copy, defaults |-> dflt]

\* faulty variant: a feature the table lacks falls back to its default weight
WeightOf_default(w, name) == IF name \in DOMAIN w THEN w[name] ELSE DEFAULT_WEIGHTS[name]

\* weights.get(name, 0.0)
WeightOf(w, name) == IF name \in DOMAIN w THEN w[name] ELSE R(0)

score_clamp(value) ==
    IF RLt(value, R(0)) THEN R(0)
    ELSE IF RLt(R(100), value) THEN R(100)
    ELSE value

\* steal_score.py:79-82
price_limit(offer, user_prefs) ==
    IF ParsesFloat(user_prefs.max_price)
    THEN FloatOf(user_prefs.max_price)
    ELSE R(offer.avg_price)

feature_values(offer, user_prefs, t) ==
    [name \in FeatureNames |->
            CASE name = "discount_pct" -> discount_pct(offer)
              [] name = "absolute_price_score" ->
                    absolute_price_score(offer, price_limit(offer, user_prefs))
              [] name = "hotel_quality" -> hotel_quality(offer)
              [] name = "flight_comfort" -> flight_comfort(offer)
              [] name = "urgency_score" -> urgency_score(offer, t)
              [] name = "novelty_score" -> novelty_score(offer, t)
              [] name = "category_match" -> category_match(offer, user_prefs)]

RECURSIVE WeightedSum(_, _, _)
WeightedSum(fv, w, names) ==
    IF names = {} THEN R(0)
    ELSE LET name == CHOOSE n \in names : TRUE
         IN  RAdd(RMul(fv[name], WeightOf(w, name)),
                  WeightedSum(fv, w, names \ {name}))

\* steal_score(offer, user_prefs) evaluated when the clock reads t
steal_score(offer, user_prefs, t) ==
    score_clamp(WeightedSum(feature_values(offer, user_prefs, t), weights, FeatureNames))

-----------------------------------------------------------------------------
(* fetchers/amadeus.py: the flight source *)

\* Raw flight items of an Amadeus response: id, price.grandTotal, the number
\* of segments of the first itinerary, and the hours of the first departure
\* and the last arrival.
Item1 == [id |-> 1, grandTotal |-> 100, segments |-> 1, departure |-> 30, arrival |-> 32]
Item2 == [id |-> 2, grandTotal |-> 250, segments |-> 2, departure |-> 30, arrival |-> 44]

\* What the API does on one fetch_offers call: `failures` requests fail in a
\* row before one succeeds with `data`.
Responses == {[failures |-> 3, data |-> <<>>],
              [failures |-> 0, data |-> <<Item1, Item2>>]}

\* str(item["id"])
IdStr(n) == CASE n = 1 -> "1" [] n = 2 -> "2" [] n = 3 -> "3" [] n = 4 -> "4" [] OTHER -> "0"

\* AmadeusFlightFetcher._parse_date: ISO text to datetime, the current time
\* when the text does not parse
_parse_date(value, t) ==
    CASE value = "2024-01-01" -> 0
      [] value = "2024-01-02" -> 24
      [] value = "2024-01-11" -> 240
      [] OTHER -> t

\* the Offer built from one raw item (amadeus.py:113-132)
MapItem(item, dest, date, t) ==
    [id |-> IdStr(item.id),
     price_per_person |-> item.grandTotal,
     avg_price |-> item.grandTotal,
     hotel_rating |-> 0,
     stars |-> 0,
     distance_from_beach |-> 0,
     direct |-> (item.segments = 1),
     total_duration |-> (item.arrival - item.departure) * 60,
     date |-> _parse_date(date, t),
     location |-> dest,
     attraction_score |-> 0,
     visible_from |-> t]

\* faulty variant: the items after one whose Offer cannot be built are lost
RECURSIVE _map_offers_abort(_, _, _, _)
_map_offers_abort(data, dest, date, t) ==
    IF data = <<>> THEN <<>>
    ELSE LET offer == MapItem(Head(data), dest, date, t)
         IN  IF OfferValid(offer)
             THEN <<offer>> \o _map_offers_abort(Tail(data), dest, date, t)
             ELSE <<>>

\* the warnings _map_offers logs (amadeus.py:134-135): one for each item
\* whose Offer cannot be built, here the item's id
RECURSIVE _map_warnings(_, _, _, _)
_map_warnings(data, dest, date, t) ==
    IF data = <<>> THEN <<>>
    ELSE (IF OfferValid(MapItem(Head(data), dest, date, t)) THEN <<>>
          ELSE <<IdStr(Head(data).id)>>)
         \o _map_warnings(Tail(data), dest, date, t)

\* AmadeusFlightFetcher._map_offers: an item whose Offer cannot be built is
\* skipped with a warning
RECURSIVE _map_offers(_, _, _, _)
_map_offers(data, dest, date, t) ==
    IF data = <<>> THEN <<>>
    ELSE LET offer == MapItem(Head(data), dest, date, t)
         IN  (IF OfferValid(offer) THEN <<offer>> ELSE <<>>)
             \o _map_offers(Tail(data), dest, date, t)

MaxAttempts == 3

\* AmadeusFlightFetcher.fetch_offers: up to three requests; the offers of the
\* first that succeeds, RuntimeError when the third fails
fetch_offers(response, dest, date, t) ==
    IF response.failures >= MaxAttempts
    THEN [raised |-> TRUE, offers |-> <<>>, warnings |-> <<>>]
    ELSE [raised |-> FALSE, offers |-> _map_offers(response.data, dest, date, t),
          warnings |-> _map_warnings(response.data, dest, date, t)]

-----------------------------------------------------------------------------
(* pipeline.py: _combine_offers *)

\* faulty variant: the dates are not compared
Matches_anyday(flight, hotel) == flight.location = hotel.location

\* faulty variant: the datetimes compared whole, .date() forgotten
Matches_exact(flight, hotel) ==
    /\ flight.location = hotel.location
    /\ flight.date = hotel.date

\* the join condition (pipeline.py:70)
Matches(flight, hotel) ==
    /\ flight.location = hotel.location
    /\ DateOf(flight.date) = DateOf(hotel.date)

\* faulty variant: the flight's visibility taken alone
CombinedVisibleFrom_flight(flight, hotel) == flight.visible_from

\* pipeline.py:71
CombinedVisibleFrom(flight, hotel) == Max(flight.visible_from, hotel.visible_from)

\* faulty variant: the hotel's price taken off the flight's
CombinedOffer_minus(flight, hotel) ==
    [id |-> flight.id \o "-" \o hotel.id,
     price_per_person |-> flight.price_per_person - hotel.price_per_person,
     avg_price |-> flight.avg_price + hotel.avg_price,
     hotel_rating |-> hotel.hotel_rating,
     stars |-> hotel.stars,
     distance_from_beach |-> hotel.distance_from_beach,
     direct |-> flight.direct,
     total_duration |-> flight.total_duration,
     date |-> flight.date,
     location |-> flight.location,
     attraction_score |-> Max(flight.attraction_score, hotel.attraction_score),
     visible_from |-> Max(flight.visible_from, hotel.visible_from)]

\* faulty variant: the hotel's average price left out of the sum
CombinedOffer_avg(flight, hotel) ==
    [id |-> flight.id \o "-" \o hotel.id,
     price_per_person |-> flight.price_per_person + hotel.price_per_person,
     avg_price |-> flight.avg_price,
     hotel_rating |-> hotel.hotel_rating,
     stars |-> hotel.stars,
     distance_from_beach |-> hotel.distance_from_beach,
     direct |-> flight.direct,
     total_duration |-> flight.total_duration,
     date |-> flight.date,
     location |-> flight.location,
     attraction_score |-> Max(flight.attraction_score, hotel.attraction_score),
     visible_from |-> Max(flight.visible_from, hotel.visible_from)]

\* the field values handed to Offer(...) (pipeline.py:72-85)
CombinedOffer(flight, hotel) ==
    [id |-> flight.id \o "-" \o hotel.id,
     price_per_person |-> flight.price_per_person + hotel.price_per_person,
     avg_price |-> flight.avg_price + hotel.avg_price,
     hotel_rating |-> hotel.hotel_rating,
     stars |-> hotel.stars,
     distance_from_beach |-> hotel.distance_from_beach,
     direct |-> flight.direct,
     total_duration |-> flight.total_duration,
     date |-> flight.date,
     location |-> flight.location,
     attraction_score |-> Max(flight.attraction_score, hotel.attraction_score),
     visible_from |-> CombinedVisibleFrom(flight, hotel)]

\* the inner loop over hotels for one flight (pipeline.py:69-86)
RECURSIVE CombineHotels(_, _)
CombineHotels(flight, hs) ==
    IF hs = <<>> THEN <<>>
    ELSE (IF Matches(flight, Head(hs)) THEN <<CombinedOffer(flight, Head(hs))>> ELSE <<>>)
         \o CombineHotels(flight, Tail(hs))

RECURSIVE _combine_offers(_, _)
_combine_offers(fs, hs) ==
    IF fs = <<>> THEN <<>>
    ELSE CombineHotels(Head(fs), hs) \o _combine_offers(Tail(fs), hs)

\* Offer(...) raises ValueError for a combined offer with a negative field
_combine_raises(fs, hs) ==
    \E a \in 1..Len(fs), b \in 1..Len(hs) :
        Matches(fs[a], hs[b]) /\ ~OfferValid(CombinedOffer(fs[a], hs[b]))

-----------------------------------------------------------------------------
(* pipeline.py: OfferRecord and _upsert_offer *)

\* the row written for an offer and its score (pipeline.py:94-107)
RecordOf(offer, score) ==
    [id |-> offer.id,
     price_per_person |-> offer.price_per_person,
     avg_price |-> offer.avg_price,
     hotel_rating |-> offer.hotel_rating,
     stars |-> offer.stars,
     distance_from_beach |-> offer.distance_from_beach,
     direct |-> offer.direct,
     total_duration |-> offer.total_duration,
     date |-> offer.date,
     location |-> offer.location,
     attraction_score |-> offer.attraction_score,
     visible_from |-> offer.visible_from,
     steal_score |-> score]

\* faulty variant: the update branch leaves the old score in place
Overwrite_keep_score(existing, offer, score) ==
    [existing EXCEPT
        !.price_per_person = offer.price_per_person,
        !.avg_price = offer.avg_price,
        !.hotel_rating = offer.hotel_rating,
        !.stars = offer.stars,
        !.distance_from_beach = offer.distance_from_beach,
        !.direct = offer.direct,
        !.total_duration = offer.total_duration,
        !.date = offer.date,
        !.location = offer.location,
        !.attraction_score = offer.attraction_score,
        !.visible_from = offer.visible_from]

\* the in-place update of an existing row (pipeline.py:110-121)
Overwrite(existing, offer, score) ==
    [existing EXCEPT
        !.price_per_person = offer.price_per_person,
        !.avg_price = offer.avg_price,
        !.hotel_rating = offer.hotel_rating,
        !.stars = offer.stars,
        !.distance_from_beach = offer.distance_from_beach,
        !.direct = offer.direct,
        !.total_duration = offer.total_duration,
        !.date = offer.date,
        !.location = offer.location,
        !.attraction_score = offer.attraction_score,
        !.visible_from = offer.visible_from,
        !.steal_score = score]

\* session.get(OfferRecord, id): the rows with that primary key
SessionGet(rows, id) == {r \in rows : r.id = id}

\* faulty variant: a row that is there is left as it is
_upsert_offer_keep(rows, offer, score) ==
    IF SessionGet(rows, offer.id) = {}
    THEN rows \cup {RecordOf(offer, score)}
    ELSE rows

\* faulty variant: the table is cleared before the row is written
_upsert_offer_truncate(rows, offer, score) == {RecordOf(offer, score)}

\* _upsert_offer(session, offer, score): the rows of the session afterwards
_upsert_offer(rows, offer, score) ==
    IF SessionGet(rows, offer.id) = {}
    THEN rows \cup {RecordOf(offer, score)}
    ELSE {IF r.id = offer.id THEN Overwrite(r, offer, score) ELSE r : r \in rows}

-----------------------------------------------------------------------------
(* pipeline.py: run_pipeline *)

\* the fill value of itertools.zip_longest
None == "None"

\* `not x` for a destination
Falsy(x) == x = None \/ x = ""

Prefix(s, n) == SubSeq(s, 1, Min(n, Len(s)))
Range(s) == {s[x] : x \in 1..Len(s)}

AirportCodes == <<"PAR", "LON", "ROM", "BCN">>
CityIds == <<"c1", "c2", "c3", "c4">>
DateLists == {<<"2024-01-01">>, <<"2024-01-01", "2024-01-11">>}

\* itertools.zip_longest(flight_destinations, hotel_destinations)
PairCount == Max(Len(flight_destinations), Len(hotel_destinations))
Airport(n) == IF n <= Len(flight_destinations) THEN flight_destinations[n] ELSE None
CityId(n) == IF n <= Len(hotel_destinations) THEN hotel_destinations[n] ELSE None

\* faulty variant: without a hotel source the hotel side is not tested
Incomplete_withhotels(n) ==
    Falsy(Airport(n)) \/ (~flights_only /\ hotels_enabled /\ Falsy(CityId(n)))

\* faulty variant: only the flight side of a pair is tested
Incomplete_flight(n) == Falsy(Airport(n))

\* pipeline.py:172
Incomplete(n) == Falsy(Airport(n)) \/ Falsy(CityId(n))

\* faulty variant: the flights_only argument is ignored
HotelFetcherFor_env(only, enabled) == IF ~enabled THEN "None" ELSE "BookingFetcher"

\* pipeline.py:154-155
HotelFetcherFor(only, enabled) == IF only \/ ~enabled THEN "None" ELSE "BookingFetcher"

\* The sequential fetch of one pair and date (pipeline.py:179-185).  The
\* hotel source is fetchers/booking_rapidapi18.py, whose fetch_offers is a
\* coroutine function: the call at line 183 returns a coroutine object and
\* the loop at line 184 raises TypeError on it.
GatherSequential(fetcher, response, airport, city_id, date, t) ==
    LET f == fetch_offers(response, airport, date, t)
    IN  IF f.raised
        THEN [error |-> "RuntimeError", flights |-> <<>>, hotels |-> <<>>,
              warnings |-> <<>>, flight_calls |-> 1, hotel_calls |-> 0]
        ELSE IF fetcher = "None"
        THEN [error |-> "", flights |-> f.offers, hotels |-> <<>>,
              warnings |-> f.warnings, flight_calls |-> 1, hotel_calls |-> 0]
        ELSE [error |-> "TypeError", flights |-> f.offers, hotels |-> <<>>,
              warnings |-> f.warnings, flight_calls |-> 1, hotel_calls |-> 1]

\* faulty variant: the concurrent fetch swallows a failed flight fetch
_gather_offers_quiet(fetcher, response, airport, city_id, date, t) ==
    IF fetcher = "None"
    THEN [error |-> "", flights |-> fetch_offers(response, airport, date, t).offers,
          hotels |-> <<>>,
          warnings |-> fetch_offers(response, airport, date, t).warnings,
          flight_calls |-> 1, hotel_calls |-> 0]
    ELSE [error |-> "AttributeError", flights |-> <<>>, hotels |-> <<>>,
          warnings |-> <<>>, flight_calls |-> 0, hotel_calls |-> 0]

\* The concurrent fetch (pipeline.py:157-168, 177).  With a hotel source,
\* line 164 looks up async_fetch_offers, which BookingRapidAPI18Fetcher does
\* not define: AttributeError, before the flight thread is awaited.
_gather_offers(fetcher, response, airport, city_id, date, t) ==
    IF fetcher = "None"
    THEN LET f == fetch_offers(response, airport, date, t)
         IN  IF f.raised
             THEN [error |-> "RuntimeError", flights |-> <<>>, hotels |-> <<>>,
                   warnings |-> <<>>, flight_calls |-> 1, hotel_calls |-> 0]
             ELSE [error |-> "", flights |-> f.offers, hotels |-> <<>>,
                   warnings |-> f.warnings, flight_calls |-> 1, hotel_calls |-> 0]
    ELSE [error |-> "AttributeError", flights |-> <<>>, hotels |-> <<>>,
          warnings |-> <<>>, flight_calls |-> 0, hotel_calls |-> 0]

\* pipeline.py:176-185
Gather(async, fetcher, response, airport, city_id, date, t) ==
    IF async
    THEN _gather_offers(fetcher, response, airport, city_id, date, t)
    ELSE GatherSequential(fetcher, response, airport, city_id, date, t)

\* faulty variant: an offer becoming visible right now is skipped too
Hidden_now(offer, t) == offer.visible_from >= t

\* pipeline.py:189
Hidden(offer, t) == offer.visible_from > t

\* the position after the last offer of a pair and date (the for loops of
\* pipeline.py:171 and 175)
NextI == IF j < Len(dates) THEN i ELSE i + 1

\* faulty variant: the loop over dates does not advance
NextJ_repeat == IF j < Len(dates) THEN j ELSE 1

NextJ == IF j < Len(dates) THEN j + 1 ELSE 1

NotScored == <<-1, 1>>

EmptyLog == [warnings |-> <<>>, fetched |-> <<>>, examined |-> <<>>,
             hotel_calls |-> 0, before |-> {},
             prev |-> [fetched |-> <<>>, committed |-> FALSE]]

NoOffer == [tried |-> FALSE, raised |-> FALSE, args |-> <<>>]
NoCall == [made |-> FALSE]
NoReply == [asked |-> FALSE]
NoFetch == [phase |-> "idle"]

\* the environment of a run that has all it needs: the database URL (given
\* or in DATABASE_URL) and the credentials of both sources; the destination
\* and date lists of pipeline.run are not read by run_pipeline
Configured ==
    [DATABASE_URL |-> TRUE, AMADEUS_API_KEY |-> TRUE, AMADEUS_API_SECRET |-> TRUE,
     BOOKING_RAPIDAPI_KEY |-> TRUE, FLIGHT_DESTS |-> <<>>, HOTEL_DESTS |-> <<>>,
     DATES |-> <<>>, FLIGHTS_ONLY |-> FALSE]

\* pipeline.py:30 has imported the scoring module, no override is configured,
\* and nothing else has been called
ScoringLoaded ==
    /\ env_json = Unset
    /\ weights_file = Unset
    /\ imported = "loaded"
    /\ weights = _load_weights(DEFAULT_WEIGHTS, Unset, Unset).weights
    /\ defaults = DEFAULT_WEIGHTS
    /\ built = NoOffer
    /\ call = NoCall
    /\ prev = NoCall
    /\ reply = NoReply

\* run_pipeline raises RuntimeError before the session is opened: no
\* database URL (pipeline.py:145-147), no Amadeus key or secret
\* (pipeline.py:152, amadeus.py:43-47), or a hotel source is to be built
\* and has no key (pipeline.py:155, booking_rapidapi18.py:26-29)
Refused(e, only, enabled) ==
    \/ ~e.DATABASE_URL
    \/ ~e.AMADEUS_API_KEY
    \/ ~e.AMADEUS_API_SECRET
    \/ (HotelFetcherFor(only, enabled) # "None" /\ ~e.BOOKING_RAPIDAPI_KEY)

\* faulty variant: the run starts whatever is missing
StartRun_unchecked ==
    /\ pc \in {"idle", "done", "raised"}
    /\ runs < MaxRuns
    /\ runs' = runs + 1
    /\ hotel_fetcher' = HotelFetcherFor(flights_only, hotels_enabled)
    /\ session' = store
    /\ pc' = "loop"
    /\ i' = 1 /\ j' = 1 /\ k' = 1
    /\ flights' = <<>> /\ hotels' = <<>> /\ offers' = <<>>
    /\ error' = ""
    /\ log' = [EmptyLog EXCEPT !.prev = [fetched |-> log.fetched,
                                         committed |-> (pc = "done")]]
    /\ UNCHANGED <<config, scoring, stepwise, now, store>>

\* the run starts: the configuration is read, fetchers are built and the
\* session is opened (pipeline.py:139-170); also a retry by
\* scheduler.run_pipeline_task
StartRun ==
    /\ pc \in {"idle", "done", "raised"}
    /\ runs < MaxRuns
    /\ runs' = runs + 1
    /\ session' = store
    /\ IF Refused(environ, flights_only, hotels_enabled)
       THEN /\ hotel_fetcher' = "None"
            /\ pc' = "raised"
            /\ error' = "RuntimeError"
       ELSE /\ hotel_fetcher' = HotelFetcherFor(flights_only, hotels_enabled)
            /\ pc' = "loop"
            /\ error' = ""
    /\ i' = 1 /\ j' = 1 /\ k' = 1
    /\ flights' = <<>> /\ hotels' = <<>> /\ offers' = <<>>
    /\ log' = [EmptyLog EXCEPT !.prev = [fetched |-> log.fetched,
                                         committed |-> (pc = "done")]]
    /\ UNCHANGED <<config, scoring, stepwise, now, store>>

\* pipeline.py:172-174
SkipPair ==
    /\ pc = "loop"
    /\ i <= PairCount
    /\ Incomplete(i)
    /\ log' = [log EXCEPT !.warnings = Append(@, <<i, Airport(i), CityId(i)>>)]
    /\ i' = i + 1
    /\ UNCHANGED <<config, scoring, stepwise, now, store, session, hotel_fetcher, pc, j, k,
                   flights, hotels, offers, error, runs>>

\* pipeline.py:175-185: the fetch for pair i and date j
FetchPair ==
    /\ pc = "loop"
    /\ i <= PairCount
    /\ ~Incomplete(i)
    /\ j <= Len(dates)
    /\ LET g == Gather(async_mode, hotel_fetcher, upstream[Airport(i)],
                       Airport(i), CityId(i), dates[j], now)
       IN  IF g.error # ""
           THEN /\ pc' = "raised"
                /\ error' = g.error
                /\ session' = store
                /\ log' = [log EXCEPT !.hotel_calls = @ + g.hotel_calls]
                /\ UNCHANGED <<flights, hotels>>
           ELSE /\ pc' = "fetched"
                /\ flights' = g.flights
                /\ hotels' = g.hotels
                /\ log' = [log EXCEPT
                             !.hotel_calls = @ + g.hotel_calls,
                             !.fetched = Append(@, [i |-> i, j |-> j, at |-> now,
                                                    flights |-> g.flights,
                                                    warnings |-> g.warnings])]
                /\ UNCHANGED <<error, session>>
    /\ UNCHANGED <<config, scoring, stepwise, now, store, hotel_fetcher, i, j, k, offers, runs>>

\* pipeline.py:186
CombinePair ==
    /\ pc = "fetched"
    /\ IF hotel_fetcher # "None" /\ _combine_raises(flights, hotels)
       THEN /\ pc' = "raised"
            /\ error' = "ValueError"
            /\ session' = store
            /\ UNCHANGED <<offers, i, j, k>>
       ELSE LET result == IF hotel_fetcher = "None" THEN flights
                          ELSE _combine_offers(flights, hotels)
            IN  /\ offers' = result
                /\ k' = 1
                /\ IF result = <<>>
                   THEN pc' = "loop" /\ i' = NextI /\ j' = NextJ
                   ELSE pc' = "offers" /\ UNCHANGED <<i, j>>
                /\ UNCHANGED <<error, session>>
    /\ UNCHANGED <<config, scoring, stepwise, now, store, hotel_fetcher, flights, hotels, runs, log>>

\* faulty variant: an offer skipped as not yet visible has its visible_from
\* set back to the clock
ExamineOffer_reset ==
    /\ pc = "offers"
    /\ LET offer == offers[k]
       IN  IF Hidden(offer, now)
           THEN /\ log' = [log EXCEPT !.examined =
                             Append(@, [offer |-> offer, at |-> now,
                                        score |-> NotScored, upserted |-> FALSE,
                                        existed |-> SessionGet(session, offer.id) # {}])]
                /\ offers' = [offers EXCEPT ![k].visible_from = now]
                /\ UNCHANGED session
           ELSE LET score == steal_score(offer, NoPrefs, now)
                IN  /\ session' = _upsert_offer(session, offer, score)
                    /\ log' = [log EXCEPT !.examined =
                                 Append(@, [offer |-> offer, at |-> now,
                                            score |-> score, upserted |-> TRUE,
                                            existed |-> SessionGet(session, offer.id) # {}])]
                    /\ UNCHANGED offers
    /\ IF k < Len(offers)
       THEN k' = k + 1 /\ UNCHANGED <<pc, i, j>>
       ELSE pc' = "loop" /\ i' = NextI /\ j' = NextJ /\ UNCHANGED k
    /\ UNCHANGED <<config, scoring, stepwise, now, store, hotel_fetcher, flights, hotels,
                   error, runs>>

\* faulty variant: every upsert is committed on its own
ExamineOffer_autocommit ==
    /\ pc = "offers"
    /\ LET offer == offers[k]
       IN  IF Hidden(offer, now)
           THEN /\ log' = [log EXCEPT !.examined =
                             Append(@, [offer |-> offer, at |-> now,
                                        score |-> NotScored, upserted |-> FALSE,
                                        existed |-> SessionGet(session, offer.id) # {}])]
                /\ UNCHANGED <<session, store>>
           ELSE LET score == steal_score(offer, NoPrefs, now)
                IN  /\ session' = _upsert_offer(session, offer, score)
                    /\ store' = session'
                    /\ log' = [log EXCEPT !.examined =
                                 Append(@, [offer |-> offer, at |-> now,
                                            score |-> score, upserted |-> TRUE,
                                            existed |-> SessionGet(session, offer.id) # {}])]
    /\ IF k < Len(offers)
       THEN k' = k + 1 /\ UNCHANGED <<pc, i, j>>
       ELSE pc' = "loop" /\ i' = NextI /\ j' = NextJ /\ UNCHANGED k
    /\ UNCHANGED <<config, scoring, stepwise, now, hotel_fetcher, flights, hotels, offers,
                   error, runs>>

\* pipeline.py:188-192: one iteration of the loop over offers
ExamineOffer ==
    /\ pc = "offers"
    /\ LET offer == offers[k]
       IN  IF Hidden(offer, now)
           THEN /\ log' = [log EXCEPT !.examined =
                             Append(@, [offer |-> offer, at |-> now,
                                        score |-> NotScored, upserted |-> FALSE,
                                        existed |-> SessionGet(session, offer.id) # {}])]
                /\ UNCHANGED session
           ELSE LET score == steal_score(offer, NoPrefs, now)
                IN  /\ session' = _upsert_offer(session, offer, score)
                    /\ log' = [log EXCEPT !.examined =
                                 Append(@, [offer |-> offer, at |-> now,
                                            score |-> score, upserted |-> TRUE,
                                            existed |-> SessionGet(session, offer.id) # {}])]
    /\ IF k < Len(offers)
       THEN k' = k + 1 /\ UNCHANGED <<pc, i, j>>
       ELSE pc' = "loop" /\ i' = NextI /\ j' = NextJ /\ UNCHANGED k
    /\ UNCHANGED <<config, scoring, stepwise, now, store, hotel_fetcher, flights, hotels, offers,
                   error, runs>>

\* pipeline.py:193
Commit ==
    /\ pc = "loop"
    /\ i > PairCount
    /\ store' = session
    /\ pc' = "done"
    /\ log' = [log EXCEPT !.before = store]
    /\ UNCHANGED <<config, scoring, stepwise, now, session, hotel_fetcher, i, j, k, flights, hotels,
                   offers, error, runs>>

\* the wall clock advances
Tick ==
    /\ now < MaxTime
    /\ now' = now + 1
    /\ UNCHANGED <<config, scoring, stepwise, store, session, hotel_fetcher, pc, i, j, k, flights,
                   hotels, offers, error, runs, log>>

Init ==
    /\ flight_destinations \in {Prefix(AirportCodes, m) : m \in 0..MaxDests}
    /\ hotel_destinations \in {Prefix(CityIds, n) : n \in 0..MaxDests}
    /\ dates \in DateLists
    /\ flights_only \in BOOLEAN
    /\ hotels_enabled \in BOOLEAN
    /\ async_mode \in BOOLEAN
    /\ upstream \in [Range(flight_destinations) -> Responses]
    /\ now = 0
    /\ store = {}
    /\ session = {}
    /\ hotel_fetcher = "None"
    /\ pc = "idle"
    /\ i = 1 /\ j = 1 /\ k = 1
    /\ flights = <<>> /\ hotels = <<>> /\ offers = <<>>
    /\ error = ""
    /\ runs = 0
    /\ log = EmptyLog
    /\ tasks = {}
    /\ environ = Configured
    /\ fetch = NoFetch
    /\ ScoringLoaded

Next ==
    \/ StartRun
    \/ SkipPair
    \/ FetchPair
    \/ CombinePair
    \/ ExamineOffer
    \/ Commit
    \/ Tick

Spec == Init /\ [][Next]_vars

-----------------------------------------------------------------------------
(* The combiner, the offer loop and the commit applied to arbitrary fetched   *)
(* lists, as tests/test_pipeline.py applies _combine_offers: one pair, one    *)
(* date, the two lists drawn from pools of valid offers.                      *)

Mk(id, price, avg, rating, stars, beach, direct, minutes, date, location, attraction, visible) ==
    [id |-> id, price_per_person |-> price, avg_price |-> avg, hotel_rating |-> rating,
     stars |-> stars, distance_from_beach |-> beach, direct |-> direct,
     total_duration |-> minutes, date |-> date, location |-> location,
     attraction_score |-> attraction, visible_from |-> visible]

FlightPool ==
    {Mk("F1", 100, 150, 0, 0, 0, TRUE, 120, 24, "PAR", 2, 0),
     Mk("F2", 200, 180, 0, 0, 0, FALSE, 800, 24, "LON", 0, 1),
     Mk("F3", 120, 160, 1, 1, 3, FALSE, 100000, 30, "PAR", 5, 2)}

HotelPool ==
    {Mk("H1", 300, 400, 8, 4, 1, FALSE, 0, 24, "PAR", 3, 1),
     Mk("H2", 50, 40, 999, 5, 2, TRUE, 0, 36, "PAR", 1, 0),
     Mk("H1", 80, 100, 6, 3, 0, TRUE, 0, 48, "PAR", 4, 2)}

SeqsUpTo(S, n) == UNION {[1..m -> S] : m \in 0..n}

OldRow(id) == RecordOf(Mk(id, 1, 2, 3, 4, 5, TRUE, 6, 7, "OLD", 8, 0), R(9))

StoredSets == {{}, {OldRow("F1-H1")}, {OldRow("F1-H2"), OldRow("F9-H9")}}

UnitInit ==
    /\ flight_destinations = <<"PAR">>
    /\ hotel_destinations = <<"c1">>
    /\ dates = <<"2024-01-02">>
    /\ flights_only = FALSE
    /\ hotels_enabled = TRUE
    /\ async_mode = FALSE
    /\ upstream = [a \in {"PAR"} |-> [failures |-> 0, data |-> <<>>]]
    /\ now = 0
    /\ store \in StoredSets
    /\ session = store
    /\ hotel_fetcher = "BookingFetcher"
    /\ pc = "fetched"
    /\ i = 1 /\ j = 1 /\ k = 1
    /\ flights \in SeqsUpTo(FlightPool, MaxOffers)
    /\ hotels \in SeqsUpTo(HotelPool, MaxOffers)
    /\ offers = <<>>
    /\ error = ""
    /\ runs = 1
    /\ log = EmptyLog
    /\ tasks = {}
    /\ environ = Configured
    /\ fetch = NoFetch
    /\ ScoringLoaded

UnitNext ==
    \/ CombinePair
    \/ ExamineOffer
    \/ Commit
    \/ Tick

SpecUnit == UnitInit /\ [][UnitNext]_vars

-----------------------------------------------------------------------------
(* models.py: the Offer constructor applied to arbitrary numeric arguments,  *)
(* as tests/test_models.py applies it                                        *)

\* a negative value, zero and a positive value for each numeric field
FieldValues == {-1, 0, 1}

\* the arguments of a construction that has not been tried yet
Arguments ==
    {[tried |-> FALSE, raised |-> FALSE,
      args |-> Mk("id", price, avg, rating, stars, beach, TRUE, minutes, 0, "LON",
                  attraction, 0)] :
        price \in FieldValues, avg \in FieldValues, rating \in FieldValues,
        stars \in FieldValues, beach \in FieldValues, minutes \in FieldValues,
        attraction \in FieldValues}

\* Offer(...): __post_init__ raises ValueError or the Offer is built
Construct ==
    /\ ~built.tried
    /\ built' = [built EXCEPT !.tried = TRUE, !.raised = ~OfferValid(built.args)]
    /\ UNCHANGED <<pipeline, now, env_json, weights_file, imported, weights,
                   defaults, call, prev, reply>>

OfferInit ==
    /\ flight_destinations = <<>>
    /\ hotel_destinations = <<>>
    /\ dates = <<"2024-01-01">>
    /\ flights_only = FALSE
    /\ hotels_enabled = TRUE
    /\ async_mode = FALSE
    /\ upstream = [a \in {} |-> [failures |-> 0, data |-> <<>>]]
    /\ now = 0
    /\ store = {}
    /\ session = {}
    /\ hotel_fetcher = "None"
    /\ pc = "idle"
    /\ i = 1 /\ j = 1 /\ k = 1
    /\ flights = <<>> /\ hotels = <<>> /\ offers = <<>>
    /\ error = ""
    /\ runs = 0
    /\ log = EmptyLog
    /\ tasks = {}
    /\ environ = Configured
    /\ fetch = NoFetch
    /\ env_json = Unset
    /\ weights_file = Unset
    /\ imported = "loaded"
    /\ weights = _load_weights(DEFAULT_WEIGHTS, Unset, Unset).weights
    /\ defaults = DEFAULT_WEIGHTS
    /\ built \in Arguments
    /\ call = NoCall
    /\ prev = NoCall
    /\ reply = NoReply

OfferNext == Construct

SpecOffer == OfferInit /\ [][OfferNext]_vars

-----------------------------------------------------------------------------
(* scoring/steal_score.py: the module imported under an arbitrary override   *)
(* environment and steal_score called on arbitrary offers and preferences,   *)
(* as tests/test_features.py calls it                                        *)

\* Valid offers: the one of tests/test_features.py; one with the price above
\* the average, the rating far above 10, the duration far above 720 and the
\* date in the past; one of zeros that becomes visible later; one far ahead.
ScoredOffers ==
    {Mk("x", 80, 100, 8, 4, 1, TRUE, 360, 240, "LON", 5, -3),
     Mk("y", 200, 150, 30, 9, 0, FALSE, 100000, -48, "PAR", 0, 0),
     Mk("z", 0, 0, 0, 0, 0, TRUE, 0, 24, "ROM", 0, 5),
     Mk("w", 100, 150, 5, 3, 2, TRUE, 120, 2000, "LON", 1, -100)}

Locations(S) == [tag |-> "list", val |-> S]
Number(n) == [tag |-> "num", val |-> n]
Malformed == [tag |-> "bad", val |-> 0]
MalformedLocations == [tag |-> "bad", val |-> {}]
NanValue == [tag |-> "nan", val |-> 0]
Prefs(locations, max_price, min_stars) ==
    [locations |-> locations, max_price |-> max_price, min_stars |-> min_stars]

\* user_prefs dictionaries
Preferences ==
    {NoPrefs,
     Prefs(Locations({"LON"}), Number(150), Number(3)),
     Prefs(Locations({"LON"}), Number(0), NoValue),
     Prefs(NoLocations, Number(-5), Number(3)),
     Prefs(MalformedLocations, Malformed, Number(5)),
     Prefs(Locations({"PAR"}), NanValue, Number(0)),
     Prefs(NoLocations, Number(50), Malformed),
     Prefs(Locations({"LON", "PAR"}), Malformed, Number(3)),
     Prefs(NoLocations, NoValue, Number(-2)),
     Prefs(Locations({"ROM"}), Number(150), Malformed)}

\* contents of STEAL_SCORE_WEIGHTS
InlineSources ==
    {Unset, Unparseable, NotAnObject,
     Object(<<>>),
     Object("discount_pct" :> Num(Rat(1, 2))),
     Object("discount_pct" :> Num(Rat(1, 2)) @@ "hotel_quality" :> NotANumber),
     Object("bonus" :> Num(R(2)) @@ "category_match" :> Num(R(-1)))}

\* contents of the file STEAL_SCORE_WEIGHTS_FILE names
FileSources ==
    {Unset, Unparseable,
     Object("novelty_score" :> Num(R(3))),
     Object("urgency_score" :> NotANumber)}

\* tables a caller may bind steal_score.weights to
ReboundTables ==
    {"discount_pct" :> R(1) @@ "hotel_quality" :> Rat(1, 2),
     [name \in FeatureNames |-> R(1)],
     [name \in FeatureNames |-> R(-1)]}

\* import trip_sniper.scoring.steal_score: line 61 runs _load_weights()
Import ==
    /\ imported = "no"
    /\ LET loaded == _load_weights(defaults, env_json, weights_file)
       IN  /\ weights' = loaded.weights
           /\ defaults' = loaded.defaults
    /\ imported' = "loaded"
    /\ UNCHANGED <<pipeline, now, env_json, weights_file, built, call, prev, reply>>

\* a caller binds the module attribute weights, which line 94 reads at the
\* time of each call
Rebind ==
    /\ imported = "loaded"
    /\ weights' \in ReboundTables
    /\ imported' = "rebound"
    /\ UNCHANGED <<pipeline, now, env_json, weights_file, defaults, built, call,
                   prev, reply>>

\* what one call of steal_score reads and returns
CallOf(offer, user_prefs, t) ==
    [made |-> TRUE, offer |-> offer, user_prefs |-> user_prefs, at |-> t,
     table |-> weights,
     limit |-> price_limit(offer, user_prefs),
     features |-> feature_values(offer, user_prefs, t),
     score |-> steal_score(offer, user_prefs, t)]

\* the arguments of a call that has not been made yet
CallArguments ==
    {[made |-> FALSE, offer |-> offer, user_prefs |-> user_prefs] :
        offer \in ScoredOffers, user_prefs \in Preferences}

\* steal_score(offer, user_prefs)
Score ==
    /\ imported # "no"
    /\ ~call.made
    /\ call' = CallOf(call.offer, call.user_prefs, now)
    /\ UNCHANGED prev
    /\ UNCHANGED <<pipeline, now, env_json, weights_file, imported, weights,
                   defaults, built, reply>>

\* steal_score called again with the arguments of the last call
Rescore ==
    /\ call.made
    /\ ~prev.made
    /\ prev' = call
    /\ call' = CallOf(call.offer, call.user_prefs, now)
    /\ UNCHANGED <<pipeline, now, env_json, weights_file, imported, weights,
                   defaults, built, reply>>

ScoreInit ==
    /\ flight_destinations = <<>>
    /\ hotel_destinations = <<>>
    /\ dates = <<"2024-01-01">>
    /\ flights_only = FALSE
    /\ hotels_enabled = TRUE
    /\ async_mode = FALSE
    /\ upstream = [a \in {} |-> [failures |-> 0, data |-> <<>>]]
    /\ now = 0
    /\ store = {}
    /\ session = {}
    /\ hotel_fetcher = "None"
    /\ pc = "idle"
    /\ i = 1 /\ j = 1 /\ k = 1
    /\ flights = <<>> /\ hotels = <<>> /\ offers = <<>>
    /\ error = ""
    /\ runs = MaxRuns
    /\ log = EmptyLog
    /\ tasks = {}
    /\ environ = Configured
    /\ fetch = NoFetch
    /\ env_json \in InlineSources
    /\ weights_file \in FileSources
    /\ imported = "no"
    /\ weights = <<>>
    /\ defaults = DEFAULT_WEIGHTS
    /\ built = NoOffer
    /\ call \in CallArguments
    /\ prev = NoCall
    /\ reply = NoReply

ScoreNext ==
    \/ Import
    \/ Rebind
    \/ Score
    \/ Rescore
    \/ Tick

SpecScore == ScoreInit /\ [][ScoreNext]_vars

-----------------------------------------------------------------------------
(* service/app.py: GET /offers over a table of records as models.py declares *)
(* them, as tests/test_service.py queries it                                 *)

MaxRows == 3     \* most records in the table
MaxLimit == 2    \* largest limit asked for

\* a row of models.OfferRecord
Row(id, price, direct, visible, score) ==
    [id |-> id, price_per_person |-> price, avg_price |-> 100, hotel_rating |-> 0,
     stars |-> 0, distance_from_beach |-> 0, direct |-> direct, total_duration |-> 0,
     date |-> 24, location |-> "LON", attraction_score |-> 0,
     visible_from |-> visible, category |-> "deal", steal_score |-> R(score)]

\* Records visible for two hours, since the current hour, for one hour, and
\* not before one and two hours from now; two of them score alike.
ServiceRows ==
    {Row("1", 50, TRUE, -2, 90),
     Row("2", 60, TRUE, 0, 80),
     Row("3", 70, FALSE, -1, 90),
     Row("4", 40, TRUE, 2, 95),
     Row("5", 55, FALSE, 1, 10)}

\* an optional query parameter
NotGiven == [given |-> FALSE, val |-> 0]
Given(v) == [given |-> TRUE, val |-> v]

\* datetime.isoformat()
isoformat(dt) == [iso |-> dt]

\* app.py:51-66
_record_to_dict(record) ==
    [id |-> record.id, price_per_person |-> record.price_per_person,
     avg_price |-> record.avg_price, hotel_rating |-> record.hotel_rating,
     stars |-> record.stars, distance_from_beach |-> record.distance_from_beach,
     direct |-> record.direct, total_duration |-> record.total_duration,
     date |-> isoformat(record.date), location |-> record.location,
     attraction_score |-> record.attraction_score,
     visible_from |-> isoformat(record.visible_from),
     steal_score |-> record.steal_score]

\* faulty variant: the free tier is not delayed
Cutoff_same(account_type, t) == t

\* app.py:79-81
Cutoff(account_type, t) == IF account_type = "free" THEN t - 1 ELSE t

\* faulty variant: the price bounds are exclusive
Passes_strict(record, cutoff, price_min, price_max, direct_only) ==
    /\ record.visible_from <= cutoff
    /\ price_min.given => record.price_per_person > price_min.val
    /\ price_max.given => record.price_per_person < price_max.val
    /\ direct_only => record.direct

\* the WHERE clauses of app.py:83-89
Passes(record, cutoff, price_min, price_max, direct_only) ==
    /\ record.visible_from <= cutoff
    /\ price_min.given => record.price_per_person >= price_min.val
    /\ price_max.given => record.price_per_person <= price_max.val
    /\ direct_only => record.direct

\* ORDER BY steal_score DESC (app.py:91); rows that score alike come in
\* whatever order the database picks
Ordered(s) ==
    \A a \in DOMAIN s, b \in DOMAIN s :
        a < b => ~RLt(s[a].steal_score, s[b].steal_score)

\* the orders in which the database may deliver the rows of S
Orderings(S) ==
    {s \in [1..Cardinality(S) -> S] :
        /\ \A a \in DOMAIN s, b \in DOMAIN s : a # b => s[a] # s[b]
        /\ Ordered(s)}

\* get_offers: the lists the endpoint may return when the clock reads t
get_offers(rows, t, limit, account_type, price_min, price_max, direct_only) ==
    LET cutoff == Cutoff(account_type, t)
        selected == {record \in rows :
                        Passes(record, cutoff, price_min, price_max, direct_only)}
    IN  {[x \in 1..Min(limit, Len(s)) |-> _record_to_dict(s[x])] :
            s \in Orderings(selected)}

\* GET /offers
GetOffers ==
    /\ \E limit \in 1..MaxLimit, account_type \in {"free", "premium"},
          price_min \in {NotGiven, Given(50)}, price_max \in {NotGiven, Given(60)},
          direct_only \in BOOLEAN :
          \E records \in get_offers(store, now, limit, account_type, price_min,
                                     price_max, direct_only) :
              reply' = [asked |-> TRUE, at |-> now, limit |-> limit,
                        account_type |-> account_type, price_min |-> price_min,
                        price_max |-> price_max, direct_only |-> direct_only,
                        records |-> records]
    /\ UNCHANGED <<pipeline, now, env_json, weights_file, imported, weights,
                   defaults, built, call, prev>>

ServiceInit ==
    /\ flight_destinations = <<>>
    /\ hotel_destinations = <<>>
    /\ dates = <<"2024-01-01">>
    /\ flights_only = FALSE
    /\ hotels_enabled = TRUE
    /\ async_mode = FALSE
    /\ upstream = [a \in {} |-> [failures |-> 0, data |-> <<>>]]
    /\ now = 0
    /\ store \in {S \in SUBSET ServiceRows : Cardinality(S) <= MaxRows}
    /\ session = {}
    /\ hotel_fetcher = "None"
    /\ pc = "idle"
    /\ i = 1 /\ j = 1 /\ k = 1
    /\ flights = <<>> /\ hotels = <<>> /\ offers = <<>>
    /\ error = ""
    /\ runs = MaxRuns
    /\ log = EmptyLog
    /\ tasks = {}
    /\ environ = Configured
    /\ fetch = NoFetch
    /\ ScoringLoaded

ServiceNext ==
    \/ GetOffers
    \/ Tick

SpecService == ServiceInit /\ [][ServiceNext]_vars

-----------------------------------------------------------------------------
(* pipeline.py run with scoring/steal_score.py imported under an override of *)
(* STEAL_SCORE_WEIGHTS: flights-only runs over one complete pair and one     *)
(* unpaired airport                                                          *)

\* contents of STEAL_SCORE_WEIGHTS: none, a negative weight, weights summing
\* above 1, and values float() turns into nan (the JSON literal NaN or the
\* text "nan")
WeightOverrides ==
    {Unset,
     Object("discount_pct" :> Num(R(-3))),
     Object("flight_comfort" :> Num(R(5)) @@ "novelty_score" :> Num(R(7))),
     Object("discount_pct" :> Num(NaN))}

WeightedInit ==
    /\ flight_destinations = <<"PAR", "LON">>
    /\ hotel_destinations = <<"c1">>
    /\ dates \in DateLists
    /\ flights_only = TRUE
    /\ hotels_enabled \in BOOLEAN
    /\ async_mode \in BOOLEAN
    /\ upstream \in [Range(flight_destinations) -> Responses]
    /\ now = 0
    /\ store = {}
    /\ session = {}
    /\ hotel_fetcher = "None"
    /\ pc = "idle"
    /\ i = 1 /\ j = 1 /\ k = 1
    /\ flights = <<>> /\ hotels = <<>> /\ offers = <<>>
    /\ error = ""
    /\ runs = 0
    /\ log = EmptyLog
    /\ tasks = {}
    /\ environ = Configured
    /\ fetch = NoFetch
    /\ env_json \in WeightOverrides
    /\ weights_file = Unset
    /\ imported = "loaded"
    /\ weights = _load_weights(DEFAULT_WEIGHTS, env_json, weights_file).weights
    /\ defaults = DEFAULT_WEIGHTS
    /\ built = NoOffer
    /\ call = NoCall
    /\ prev = NoCall
    /\ reply = NoReply

SpecWeighted == WeightedInit /\ [][Next]_vars

-----------------------------------------------------------------------------
(* pipeline.py run in flights-only mode over two complete pairs and one      *)
(* unpaired airport, the Amadeus API answering with items of which some      *)
(* cannot be built into an Offer                                             *)

\* a negative price, and an arrival before the departure, which gives a
\* negative total_duration
ItemNegative == [id |-> 3, grandTotal |-> -5, segments |-> 1, departure |-> 30, arrival |-> 32]
ItemBackwards == [id |-> 4, grandTotal |-> 80, segments |-> 2, departure |-> 30, arrival |-> 29]

RawResponses ==
    {[failures |-> 0, data |-> <<Item1, Item2>>],
     [failures |-> 0, data |-> <<ItemNegative, Item1>>],
     [failures |-> 1, data |-> <<Item1, ItemBackwards, Item2>>],
     [failures |-> 0, data |-> <<ItemNegative>>]}

RawInit ==
    /\ flight_destinations = <<"PAR", "LON", "ROM">>
    /\ hotel_destinations = <<"c1", "c2">>
    /\ dates \in DateLists
    /\ flights_only = TRUE
    /\ hotels_enabled = TRUE
    /\ async_mode \in BOOLEAN
    /\ \E answers \in [{"PAR", "LON"} -> RawResponses] :
          upstream = [a \in Range(flight_destinations) |->
                         IF a = "ROM" THEN [failures |-> 0, data |-> <<Item1, Item2>>]
                         ELSE answers[a]]
    /\ now = 0
    /\ store = {}
    /\ session = {}
    /\ hotel_fetcher = "None"
    /\ pc = "idle"
    /\ i = 1 /\ j = 1 /\ k = 1
    /\ flights = <<>> /\ hotels = <<>> /\ offers = <<>>
    /\ error = ""
    /\ runs = 0
    /\ log = EmptyLog
    /\ tasks = {}
    /\ environ = Configured
    /\ fetch = NoFetch
    /\ ScoringLoaded

SpecRaw == RawInit /\ [][Next]_vars

-----------------------------------------------------------------------------
(* pipeline.py in concurrent mode (ASYNC_FETCH=1), the fetch of a pair       *)
(* followed from the call of asyncio.run to its return                       *)

\* the flight fetch of pair n and date d, running in a worker thread
FlightTask(n, d) == [kind |-> "flight", i |-> n, j |-> d]

\* pipeline.py:177 enters _gather_offers.  Line 158 only creates the
\* coroutine of the flight fetch.  Without a hotel source line 162 awaits
\* it, which starts the fetch in a thread; with one, line 164 raises
\* AttributeError and neither fetch is ever started.
StartGather ==
    /\ pc = "loop"
    /\ async_mode
    /\ i <= PairCount
    /\ ~Incomplete(i)
    /\ j <= Len(dates)
    /\ IF hotel_fetcher = "None"
       THEN /\ tasks' = tasks \cup {FlightTask(i, j)}
            /\ pc' = "gather"
            /\ UNCHANGED <<error, session>>
       ELSE /\ pc' = "raised"
            /\ error' = _gather_offers(hotel_fetcher, upstream[Airport(i)], Airport(i),
                                       CityId(i), dates[j], now).error
            /\ session' = store
            /\ UNCHANGED tasks
    /\ UNCHANGED <<config, scoring, fetch, now, store, hotel_fetcher, i, j, k, flights,
                   hotels, offers, runs, log>>

\* the thread of the flight fetch ends and line 162 hands its result, or its
\* exception, to asyncio.run (pipeline.py:162-163, 177)
FinishGather ==
    /\ pc = "gather"
    /\ \E task \in tasks :
          LET g == _gather_offers(hotel_fetcher, upstream[Airport(task.i)],
                                  Airport(task.i), CityId(task.i), dates[task.j], now)
          IN  /\ tasks' = tasks \ {task}
              /\ IF g.error # ""
                 THEN /\ pc' = "raised"
                      /\ error' = g.error
                      /\ session' = store
                      /\ UNCHANGED <<flights, hotels, log>>
                 ELSE /\ pc' = "fetched"
                      /\ flights' = g.flights
                      /\ hotels' = g.hotels
                      /\ log' = [log EXCEPT !.fetched =
                                   Append(@, [i |-> task.i, j |-> task.j, at |-> now,
                                              flights |-> g.flights,
                                              warnings |-> g.warnings])]
                      /\ UNCHANGED <<error, session>>
    /\ UNCHANGED <<config, scoring, fetch, now, store, hotel_fetcher, i, j, k, offers,
                   runs>>

AsyncInit ==
    /\ flight_destinations = <<"PAR", "LON", "ROM">>
    /\ hotel_destinations = <<"c1", "c2">>
    /\ dates \in DateLists
    /\ flights_only \in BOOLEAN
    /\ hotels_enabled = TRUE
    /\ async_mode = TRUE
    /\ \E answers \in [{"PAR", "LON"} -> Responses] :
          upstream = [a \in Range(flight_destinations) |->
                         IF a = "ROM" THEN [failures |-> 0, data |-> <<Item1, Item2>>]
                         ELSE answers[a]]
    /\ now = 0
    /\ store = {}
    /\ session = {}
    /\ hotel_fetcher = "None"
    /\ pc = "idle"
    /\ i = 1 /\ j = 1 /\ k = 1
    /\ flights = <<>> /\ hotels = <<>> /\ offers = <<>>
    /\ error = ""
    /\ runs = 0
    /\ log = EmptyLog
    /\ tasks = {}
    /\ environ = Configured
    /\ fetch = NoFetch
    /\ ScoringLoaded

AsyncNext ==
    \/ StartRun
    \/ SkipPair
    \/ StartGather
    \/ FinishGather
    \/ CombinePair
    \/ ExamineOffer
    \/ Commit
    \/ Tick

SpecAsync == AsyncInit /\ [][AsyncNext]_vars

-----------------------------------------------------------------------------
(* fetchers/amadeus.py: fetch_offers followed attempt by attempt *)

\* what the upstream does with one request: the client raises ResponseError
\* for an HTTP status (401: the credentials are refused, 503: the service is
\* down), the request fails otherwise, or a response comes back with its
\* data, its X-RateLimit-Remaining header (absent: "1"; "x" is no number) and
\* the seconds until X-RateLimit-Reset (-1: header absent)
Answers ==
    [kind : {"ResponseError"}, status : {401, 503}, data : {<<>>},
     remaining : {"1"}, reset : {-1}]
    \cup {[kind |-> "Exception", status |-> 0, data |-> <<>>, remaining |-> "1",
           reset |-> -1]}
    \cup [kind : {"response"}, status : {200}, data : {<<Item1>>, <<Item2, Item1>>},
          remaining : {"1"}, reset : {-1}]
    \cup [kind : {"response"}, status : {200}, data : {<<Item1>>},
          remaining : {"0"}, reset : {-1, 0, 3}]
    \cup [kind : {"response"}, status : {200}, data : {<<Item1>>},
          remaining : {"x"}, reset : {-1}]

\* the attempt reaches the return of line 89: a response came back and its
\* header is a number
Succeeds(answer) == answer.kind = "response" /\ answer.remaining \in {"0", "1"}

\* amadeus.py:84
RateLimitWait(answer) ==
    IF answer.reset = -1 THEN 1
    ELSE IF answer.reset > 1 THEN answer.reset ELSE 1

\* everything outside the call of fetch_offers
caller == <<config, scoring, now, store, session, hotel_fetcher, pc, i, j, k, flights,
            hotels, offers, error, runs, log, tasks>>

\* amadeus.py:64-76: the call, before the first attempt
FetchCall ==
    /\ fetch.phase = "idle"
    /\ fetch' = [fetch EXCEPT !.phase = "attempt", !.attempt = 0, !.backoff = 1]
    /\ UNCHANGED caller

\* amadeus.py:77-97: one request and what the try block makes of it
Request ==
    /\ fetch.phase = "attempt"
    /\ fetch.attempt < MaxAttempts
    /\ LET answer == fetch.answers[fetch.attempt + 1]
       IN  fetch' =
             IF Succeeds(answer)
             THEN IF answer.remaining = "0"
                  THEN [fetch EXCEPT !.phase = "limited", !.requests = @ + 1]
                  ELSE [fetch EXCEPT !.phase = "returned", !.requests = @ + 1,
                                     !.result = _map_offers(answer.data, "PAR",
                                                            "2024-01-01", now)]
             ELSE IF fetch.attempt = MaxAttempts - 1
                  THEN [fetch EXCEPT !.phase = "raised", !.requests = @ + 1]
                  ELSE [fetch EXCEPT !.phase = "failed", !.requests = @ + 1]
    /\ UNCHANGED caller

\* amadeus.py:81-89: the pause of an exhausted rate limit, then the return
RateLimit ==
    /\ fetch.phase = "limited"
    /\ LET answer == fetch.answers[fetch.attempt + 1]
       IN  fetch' = [fetch EXCEPT !.phase = "returned",
                                  !.pauses = Append(@, RateLimitWait(answer)),
                                  !.result = _map_offers(answer.data, "PAR",
                                                         "2024-01-01", now)]
    /\ UNCHANGED caller

\* faulty variant: the wait is not doubled
Backoff_constant ==
    /\ fetch.phase = "failed"
    /\ fetch' = [fetch EXCEPT !.phase = "attempt", !.attempt = @ + 1,
                              !.waits = Append(@, fetch.backoff)]
    /\ UNCHANGED caller

\* amadeus.py:98-99 and 104-105: the wait after a failed attempt, doubled for
\* the next one
Backoff ==
    /\ fetch.phase = "failed"
    /\ fetch' = [fetch EXCEPT !.phase = "attempt", !.attempt = @ + 1,
                              !.waits = Append(@, fetch.backoff),
                              !.backoff = @ * 2]
    /\ UNCHANGED caller

FetchInit ==
    /\ flight_destinations = <<"PAR">>
    /\ hotel_destinations = <<"c1">>
    /\ dates = <<"2024-01-01">>
    /\ flights_only = TRUE
    /\ hotels_enabled = TRUE
    /\ async_mode = FALSE
    /\ upstream = [a \in {"PAR"} |-> [failures |-> 0, data |-> <<>>]]
    /\ now = 0
    /\ store = {}
    /\ session = {}
    /\ hotel_fetcher = "None"
    /\ pc = "idle"
    /\ i = 1 /\ j = 1 /\ k = 1
    /\ flights = <<>> /\ hotels = <<>> /\ offers = <<>>
    /\ error = ""
    /\ runs = 0
    /\ log = EmptyLog
    /\ tasks = {}
    /\ environ = Configured
    /\ \E answers \in [1..MaxAttempts -> Answers] :
          fetch = [phase |-> "idle", answers |-> answers, attempt |-> 0, backoff |-> 1,
                   requests |-> 0, waits |-> <<>>, pauses |-> <<>>, result |-> <<>>]
    /\ ScoringLoaded

FetchNext ==
    \/ FetchCall
    \/ Request
    \/ RateLimit
    \/ Backoff

\* every step is a step of the one thread that made the call, which goes on
\* once the request or the sleep it waits for is over
SpecFetch == FetchInit /\ [][FetchNext]_vars /\ WF_vars(FetchNext)

-----------------------------------------------------------------------------
(* fetchers/booking.py: the Booking.com hotel source with its cache *)

\* Raw hotel items of a Booking response: id, price (a number, a text that is
\* no number, or null), rating and stars.
Hotel1 == [id |-> 1, price |-> [kind |-> "number", val |-> 50], rating |-> 8, stars |-> 4]
Hotel2 == [id |-> 2, price |-> [kind |-> "number", val |-> 70], rating |-> 9, stars |-> 5]
HotelNegative == [id |-> 3, price |-> [kind |-> "number", val |-> -5], rating |-> 8, stars |-> 4]
HotelText == [id |-> 4, price |-> [kind |-> "text", val |-> 0], rating |-> 8, stars |-> 4]
HotelNull == [id |-> 3, price |-> [kind |-> "null", val |-> 0], rating |-> 8, stars |-> 4]

\* the "hotels" lists an upstream answer or a cache entry may hold
HotelLists ==
    {<<>>, <<Hotel1>>, <<Hotel1, Hotel2>>, <<Hotel1, HotelNegative>>,
     <<HotelText, Hotel1>>, <<HotelNull, Hotel1>>}

\* BookingFetcher._parse_date succeeds (booking.py:209-215); otherwise it
\* raises ValueError
ParsesDate(value) == value \in {"2024-01-01", "2024-01-02", "2024-01-11"}

\* the Offer of one raw hotel item (booking.py:187-200)
HotelOffer(item, destination, checkin, t) ==
    [id |-> IdStr(item.id),
     price_per_person |-> item.price.val,
     avg_price |-> item.price.val,
     hotel_rating |-> item.rating,
     stars |-> item.stars,
     distance_from_beach |-> 0,
     direct |-> FALSE,
     total_duration |-> 0,
     date |-> _parse_date(checkin, t),
     location |-> destination,
     attraction_score |-> 0,
     visible_from |-> t]

\* what the body of the loop of _map_offers does with one item
\* (booking.py:186-205): float(None) is a TypeError, logged and skipped;
\* float of a text, a date that does not parse and a negative field are
\* ValueErrors, raised again at line 203
MapHotel(item, destination, checkin, t) ==
    IF item.price.kind = "null" THEN "skipped"
    ELSE IF item.price.kind = "text" THEN "ValueError"
    ELSE IF ~ParsesDate(checkin) THEN "ValueError"
    ELSE IF ~OfferValid(HotelOffer(item, destination, checkin, t)) THEN "ValueError"
    ELSE "offer"

\* BookingFetcher._map_offers (booking.py:181-206): the offers of the list,
\* or the ValueError of its first item that raises one
RECURSIVE Booking_map_offers(_, _, _, _)
Booking_map_offers(items, destination, checkin, t) ==
    IF items = <<>> THEN [raised |-> "", offers |-> <<>>]
    ELSE LET made == MapHotel(Head(items), destination, checkin, t)
             rest == Booking_map_offers(Tail(items), destination, checkin, t)
         IN  IF made = "ValueError" THEN [raised |-> "ValueError", offers |-> <<>>]
             ELSE IF rest.raised # "" THEN rest
             ELSE IF made = "offer"
             THEN [raised |-> "",
                   offers |-> <<HotelOffer(Head(items), destination, checkin, t)>>
                              \o rest.offers]
             ELSE rest

\* booking.py:146-153: the items mapped one at a time, those that raise
\* ValueError logged and left out
RECURSIVE MapEach(_, _, _, _)
MapEach(items, destination, checkin, t) ==
    IF items = <<>> THEN <<>>
    ELSE Booking_map_offers(<<Head(items)>>, destination, checkin, t).offers
         \o MapEach(Tail(items), destination, checkin, t)

\* booking.py:125-132 and 158-165: the cache entry, when there is one and it
\* maps; an entry whose mapping raises is logged as a cache failure and the
\* fetch goes on to the network
CacheServes(f, t) ==
    /\ f.cache.present
    /\ f.cache.hit
    /\ Booking_map_offers(f.cache.hotels, "PAR", f.checkin, t).raised = ""

\* the "hotels" list a call maps: the cache entry's when it serves, the
\* upstream answer's otherwise
Served(f, t) == IF CacheServes(f, t) THEN f.cache.hotels ELSE f.answer.hotels

\* booking.py:134-143 and 167-176: authentication, the request and the write
\* to the cache, the same for both ways of fetching: the error raised, the
\* token and the cache afterwards
Network(f) ==
    IF ~f.token /\ ~f.auth_ok
    THEN [raised |-> "RuntimeError", token |-> FALSE, cache |-> f.cache]
    ELSE IF ~f.answer.ok
    THEN [raised |-> "RuntimeError", token |-> TRUE, cache |-> f.cache]
    ELSE [raised |-> "", token |-> TRUE,
          cache |-> IF f.cache.present
                    THEN [present |-> TRUE, hit |-> TRUE, hotels |-> f.answer.hotels]
                    ELSE f.cache]

\* BookingFetcher.fetch_offers("PAR", checkin, checkout) (booking.py:122-153)
Booking_fetch_offers(f, t) ==
    IF CacheServes(f, t)
    THEN [raised |-> "", token |-> f.token, cache |-> f.cache,
          offers |-> Booking_map_offers(f.cache.hotels, "PAR", f.checkin, t).offers]
    ELSE LET net == Network(f)
         IN  [raised |-> net.raised, token |-> net.token, cache |-> net.cache,
              offers |-> IF net.raised # "" THEN <<>>
                         ELSE MapEach(f.answer.hotels, "PAR", f.checkin, t)]

\* BookingFetcher.async_fetch_offers("PAR", checkin, checkout)
\* (booking.py:155-178)
Booking_async_fetch_offers(f, t) ==
    IF CacheServes(f, t)
    THEN [raised |-> "", token |-> f.token, cache |-> f.cache,
          offers |-> Booking_map_offers(f.cache.hotels, "PAR", f.checkin, t).offers]
    ELSE LET net == Network(f)
             mapped == Booking_map_offers(f.answer.hotels, "PAR", f.checkin, t)
         IN  [raised |-> IF net.raised # "" THEN net.raised ELSE mapped.raised,
              token |-> net.token, cache |-> net.cache,
              offers |-> IF net.raised # "" THEN <<>> ELSE mapped.offers]

\* one call of fetch_offers
BookingFetch ==
    /\ fetch.phase = "booking"
    /\ LET out == Booking_fetch_offers(fetch, now)
       IN  fetch' = [fetch EXCEPT !.token = out.token, !.cache = out.cache,
                                  !.last = [path |-> "sync", data |-> Served(fetch, now),
                                            raised |-> out.raised, offers |-> out.offers]]
    /\ UNCHANGED caller

\* one call of async_fetch_offers, run to its end
BookingAsyncFetch ==
    /\ fetch.phase = "booking"
    /\ LET out == Booking_async_fetch_offers(fetch, now)
       IN  fetch' = [fetch EXCEPT !.token = out.token, !.cache = out.cache,
                                  !.last = [path |-> "async", data |-> Served(fetch, now),
                                            raised |-> out.raised, offers |-> out.offers]]
    /\ UNCHANGED caller

\* the entry written with CACHE_TTL (booking.py:31, 141) runs out
CacheExpire ==
    /\ fetch.phase = "booking"
    /\ fetch.cache.present /\ fetch.cache.hit
    /\ fetch' = [fetch EXCEPT !.cache = [present |-> TRUE, hit |-> FALSE, hotels |-> <<>>]]
    /\ UNCHANGED caller

\* the states of the cache before the first call: no Redis, no entry, an entry
Caches ==
    {[present |-> FALSE, hit |-> FALSE, hotels |-> <<>>],
     [present |-> TRUE, hit |-> FALSE, hotels |-> <<>>]}
    \cup [present : {TRUE}, hit : {TRUE}, hotels : HotelLists]

\* what the upstream does with the request for hotels
HotelAnswers ==
    {[ok |-> FALSE, hotels |-> <<>>]} \cup [ok : {TRUE}, hotels : HotelLists]

BookingInit ==
    /\ flight_destinations = <<"PAR">>
    /\ hotel_destinations = <<"c1">>
    /\ dates = <<"2024-01-01">>
    /\ flights_only = TRUE
    /\ hotels_enabled = TRUE
    /\ async_mode = FALSE
    /\ upstream = [a \in {"PAR"} |-> [failures |-> 0, data |-> <<>>]]
    /\ now = 0
    /\ store = {}
    /\ session = {}
    /\ hotel_fetcher = "None"
    /\ pc = "idle"
    /\ i = 1 /\ j = 1 /\ k = 1
    /\ flights = <<>> /\ hotels = <<>> /\ offers = <<>>
    /\ error = ""
    /\ runs = 0
    /\ log = EmptyLog
    /\ tasks = {}
    /\ environ = Configured
    /\ \E cache \in Caches, answer \in HotelAnswers, auth_ok \in BOOLEAN,
          checkin \in {"2024-01-01", "bad-date"} :
          fetch = [phase |-> "booking", cache |-> cache, answer |-> answer,
                   auth_ok |-> auth_ok, token |-> FALSE, checkin |-> checkin,
                   last |-> [path |-> "none", data |-> <<>>, raised |-> "",
                             offers |-> <<>>]]
    /\ ScoringLoaded

BookingNext ==
    \/ BookingFetch
    \/ BookingAsyncFetch
    \/ CacheExpire

SpecBooking == BookingInit /\ [][BookingNext]_vars

-----------------------------------------------------------------------------
(* pipeline.py: run, the entry point of the scheduler, and the             *)
(* configuration run_pipeline needs                                         *)

\* d.strip() of one piece of a comma-separated value
Strip(piece) ==
    CASE piece = " " -> ""
      [] piece = " PAR" -> "PAR"
      [] piece = "c1 " -> "c1"
      [] OTHER -> piece

\* [d.strip() for d in pieces if d.strip()] (pipeline.py:209-211)
RECURSIVE Stripped(_)
Stripped(pieces) ==
    IF pieces = <<>> THEN <<>>
    ELSE (IF Strip(Head(pieces)) = "" THEN <<>> ELSE <<Strip(Head(pieces))>>)
         \o Stripped(Tail(pieces))

\* pipeline.py:213
ListMissing(e) ==
    \/ Stripped(e.FLIGHT_DESTS) = <<>>
    \/ Stripped(e.HOTEL_DESTS) = <<>>
    \/ Stripped(e.DATES) = <<>>

\* pipeline.run (pipeline.py:197-217): the lists are read from the
\* environment; when one of them is empty run raises, otherwise it calls
\* run_pipeline with them
Run ==
    /\ pc = "off"
    /\ IF ListMissing(environ)
       THEN /\ pc' = "refused"
            /\ error' = "RuntimeError"
            /\ UNCHANGED <<flight_destinations, hotel_destinations, dates, flights_only>>
       ELSE /\ pc' = "idle"
            /\ flight_destinations' = Stripped(environ.FLIGHT_DESTS)
            /\ hotel_destinations' = Stripped(environ.HOTEL_DESTS)
            /\ dates' = Stripped(environ.DATES)
            /\ flights_only' = environ.FLIGHTS_ONLY
            /\ UNCHANGED error
    /\ UNCHANGED <<hotels_enabled, async_mode, upstream, environ, scoring, stepwise, now,
                   store, session, hotel_fetcher, i, j, k, flights, hotels, offers, runs,
                   log>>

\* what may be set of the configuration when the process starts
Environments ==
    [DATABASE_URL : BOOLEAN, AMADEUS_API_KEY : BOOLEAN, AMADEUS_API_SECRET : BOOLEAN,
     BOOKING_RAPIDAPI_KEY : BOOLEAN,
     FLIGHT_DESTS : {<<"">>, <<" ">>, <<" PAR", "">>, <<" PAR", "LON">>},
     HOTEL_DESTS : {<<"">>, <<"c1 ">>},
     DATES : {<<"">>, <<"2024-01-01">>},
     FLIGHTS_ONLY : BOOLEAN]

StartInit ==
    /\ flight_destinations = <<>>
    /\ hotel_destinations = <<>>
    /\ dates = <<>>
    /\ flights_only = FALSE
    /\ hotels_enabled \in BOOLEAN
    /\ async_mode = FALSE
    /\ upstream = [a \in {"PAR", "LON"} |-> [failures |-> 0, data |-> <<Item1, Item2>>]]
    /\ now = 0
    /\ store = {}
    /\ session = {}
    /\ hotel_fetcher = "None"
    /\ pc = "off"
    /\ i = 1 /\ j = 1 /\ k = 1
    /\ flights = <<>> /\ hotels = <<>> /\ offers = <<>>
    /\ error = ""
    /\ runs = 0
    /\ log = EmptyLog
    /\ tasks = {}
    /\ fetch = NoFetch
    /\ environ \in Environments
    /\ ScoringLoaded

StartNext ==
    \/ Run
    \/ StartRun
    \/ SkipPair
    \/ FetchPair
    \/ CombinePair
    \/ ExamineOffer
    \/ Commit
    \/ Tick

SpecStart == StartInit /\ [][StartNext]_vars

-----------------------------------------------------------------------------
(* fetchers/skyscanner.py: the paginated flight source *)

\* the itineraries of page n of a response: none, one, or one followed by an
\* item whose Offer cannot be built (a negative price)
Itineraries(n) ==
    {<<>>,
     <<[id |-> IdStr(n), price |-> 100 * n, isDirect |-> TRUE, duration |-> 60,
        date |-> "2024-01-01"]>>,
     <<[id |-> IdStr(n), price |-> 100 * n, isDirect |-> FALSE, duration |-> 90,
        date |-> "2024-01-02"],
       [id |-> "0", price |-> -1, isDirect |-> TRUE, duration |-> 60,
        date |-> "2024-01-01"]>>}

\* what _request gives for page n: RuntimeError after its retries
\* (skyscanner.py:79), or the JSON of the page with its nextPageToken
\* ("absent": the key is missing)
PagesAt(n, tokens) ==
    {[ok |-> FALSE, itineraries |-> <<>>, nextPageToken |-> "absent"]}
    \cup [ok : {TRUE}, itineraries : Itineraries(n), nextPageToken : tokens]

\* the upstream: one to MaxPages pages, of which the last names no next page
RECURSIVE Upstreams(_)
Upstreams(n) ==
    IF n = 0 THEN {<<>>}
    ELSE {Append(pages, page) : pages \in Upstreams(n - 1),
                                page \in PagesAt(n, {"t", ""})}

Searches ==
    UNION {{Append(pages, page) : pages \in Upstreams(n - 1),
                                  page \in PagesAt(n, {"absent"})} : n \in 1..MaxPages}

\* the Offer of one itinerary (skyscanner.py:191-204)
SkyOffer(item, destination, t) ==
    [id |-> item.id,
     price_per_person |-> item.price,
     avg_price |-> item.price,
     hotel_rating |-> 0,
     stars |-> 0,
     distance_from_beach |-> 0,
     direct |-> item.isDirect,
     total_duration |-> item.duration,
     date |-> _parse_date(item.date, t),
     location |-> destination,
     attraction_score |-> 0,
     visible_from |-> t]

\* SkyscannerFetcher._map_offers (skyscanner.py:185-208): an item whose Offer
\* cannot be built is logged and left out
RECURSIVE Sky_map_offers(_, _, _)
Sky_map_offers(items, destination, t) ==
    IF items = <<>> THEN <<>>
    ELSE (IF OfferValid(SkyOffer(Head(items), destination, t))
          THEN <<SkyOffer(Head(items), destination, t)>> ELSE <<>>)
         \o Sky_map_offers(Tail(items), destination, t)

\* `if not state.next_page_token` (skyscanner.py:151, 178)
NoToken(page) == page.nextPageToken \in {"absent", ""}

\* a call before its first request
NewCall == [status |-> "new", page |-> 0, pages_fetched |-> 0, offers |-> <<>>]

\* one turn of the loop of fetch_offers (skyscanner.py:132-153); without
\* max_pages also of async_fetch_offers (skyscanner.py:163-180)
SkyStep(c, pages, max_pages, t) ==
    LET data == pages[c.page + 1]
    IN  IF ~data.ok
        THEN [c EXCEPT !.status = "raised", !.pages_fetched = @ + 1]
        ELSE LET more == [c EXCEPT !.offers = @ \o Sky_map_offers(data.itineraries, "PAR", t),
                                   !.pages_fetched = @ + 1]
             IN  IF max_pages.given /\ more.pages_fetched >= max_pages.val
                 THEN [more EXCEPT !.status = "returned"]
                 ELSE IF NoToken(data)
                 THEN [more EXCEPT !.status = "returned"]
                 ELSE [more EXCEPT !.status = "paging", !.page = @ + 1]

\* max_pages not given
NoLimit == [given |-> FALSE, val |-> 0]

\* fetch_offers("PAR", date, max_pages): the next request of the call
PageRequest ==
    /\ fetch.phase = "skyscanner"
    /\ fetch.sync.status \in {"new", "paging"}
    /\ fetch' = [fetch EXCEPT !.sync = SkyStep(@, fetch.pages, fetch.max_pages, now)]
    /\ UNCHANGED caller

\* async_fetch_offers("PAR", date): the next request of the call
AsyncPageRequest ==
    /\ fetch.phase = "skyscanner"
    /\ fetch.async.status \in {"new", "paging"}
    /\ fetch' = [fetch EXCEPT !.async = SkyStep(@, fetch.pages, NoLimit, now)]
    /\ UNCHANGED caller

SkyscannerInit ==
    /\ flight_destinations = <<"PAR">>
    /\ hotel_destinations = <<"c1">>
    /\ dates = <<"2024-01-01">>
    /\ flights_only = TRUE
    /\ hotels_enabled = TRUE
    /\ async_mode = FALSE
    /\ upstream = [a \in {"PAR"} |-> [failures |-> 0, data |-> <<>>]]
    /\ now = 0
    /\ store = {}
    /\ session = {}
    /\ hotel_fetcher = "None"
    /\ pc = "idle"
    /\ i = 1 /\ j = 1 /\ k = 1
    /\ flights = <<>> /\ hotels = <<>> /\ offers = <<>>
    /\ error = ""
    /\ runs = 0
    /\ log = EmptyLog
    /\ tasks = {}
    /\ environ = Configured
    /\ \E pages \in Searches,
          max_pages \in {NoLimit} \cup [given : {TRUE}, val : 0..(MaxPages + 1)] :
          fetch = [phase |-> "skyscanner", pages |-> pages, max_pages |-> max_pages,
                   sync |-> NewCall, async |-> NewCall]
    /\ ScoringLoaded

SkyscannerNext ==
    \/ PageRequest
    \/ AsyncPageRequest

SpecSkyscanner == SkyscannerInit /\ [][SkyscannerNext]_vars

-----------------------------------------------------------------------------
(* the pipeline and the read API over one table: runs of pipeline.py write *)
(* the rows that GET /offers of service/app.py reads                        *)

ReaderInit ==
    /\ flight_destinations = <<"PAR">>
    /\ hotel_destinations = <<"c1">>
    /\ dates = <<"2024-01-01">>
    /\ flights_only = TRUE
    /\ hotels_enabled = TRUE
    /\ async_mode = FALSE
    /\ upstream = [a \in {"PAR"} |-> [failures |-> 0, data |-> <<Item1, Item2>>]]
    /\ now = 0
    /\ store = {}
    /\ session = {}
    /\ hotel_fetcher = "None"
    /\ pc = "idle"
    /\ i = 1 /\ j = 1 /\ k = 1
    /\ flights = <<>> /\ hotels = <<>> /\ offers = <<>>
    /\ error = ""
    /\ runs = 0
    /\ log = EmptyLog
    /\ tasks = {}
    /\ environ = Configured
    /\ fetch = NoFetch
    /\ ScoringLoaded

ReaderNext ==
    \/ StartRun
    \/ FetchPair
    \/ CombinePair
    \/ ExamineOffer
    \/ Commit
    \/ Tick
    \/ GetOffers

SpecReader == ReaderInit /\ [][ReaderNext]_vars

-----------------------------------------------------------------------------
(* Properties *)

Last(q) == q[Len(q)]

ExaminedOffers == [x \in 1..Len(log.examined) |-> log.examined[x].offer]

RECURSIVE FetchedFlights(_)
FetchedFlights(q) == IF q = <<>> THEN <<>> ELSE Head(q).flights \o FetchedFlights(Tail(q))

\* C1: a second run over identical source data (every fetch returns the same
\* offers as in the committed run before it) leaves the store exactly as the
\* first run left it, steal_score included.
C1_Idempotent ==
    (pc = "done" /\ log.prev.committed /\ log.prev.fetched = log.fetched)
        => store = log.before

\* C2: after _upsert_offer(session, offer, score) the session holds exactly
\* one row with the offer's id, each field of the row is the offer's field and
\* its steal_score is the score, whether the id was there before or not.
C2_UpsertExact ==
    (pc # "raised" /\ log.examined # <<>> /\ Last(log.examined).upserted) =>
        LET e == Last(log.examined)
            rows == {r \in session : r.id = e.offer.id}
        IN  /\ Cardinality(rows) = 1
            /\ \A r \in rows :
                /\ r.price_per_person = e.offer.price_per_person
                /\ r.avg_price = e.offer.avg_price
                /\ r.hotel_rating = e.offer.hotel_rating
                /\ r.stars = e.offer.stars
                /\ r.distance_from_beach = e.offer.distance_from_beach
                /\ r.direct = e.offer.direct
                /\ r.total_duration = e.offer.total_duration
                /\ r.date = e.offer.date
                /\ r.location = e.offer.location
                /\ r.attraction_score = e.offer.attraction_score
                /\ r.visible_from = e.offer.visible_from
                /\ r.steal_score = e.score

\* an upsert over a row that was stored with other values
C2_Witness ==
    /\ Len(log.examined) = 1
    /\ Last(log.examined).upserted
    /\ Last(log.examined).existed
    /\ store # {}

\* C3: an offer whose visible_from is later than the clock when it is examined
\* is neither scored nor upserted; every other offer of the pair is scored and
\* upserted, and every offer of the pair is examined.
C3_VisibilityFilter ==
    /\ \A x \in 1..Len(log.examined) :
          LET e == log.examined[x]
          IN  IF e.offer.visible_from > e.at
              THEN ~e.upserted /\ e.score = NotScored
              ELSE /\ e.upserted /\ e.score # NotScored
                   /\ (pc # "raised" => \E r \in session : r.id = e.offer.id)
    /\ (pc \in {"loop", "done"} /\ hotel_fetcher # "None") => ExaminedOffers = offers
    /\ \A r \in session : r \in store \/
          \E x \in 1..Len(log.examined) :
              log.examined[x].upserted /\ log.examined[x].offer.id = r.id

\* a finished pair with an offer skipped as not yet visible, one upserted at
\* the very hour it became visible, and no row for the skipped one
C3_Witness ==
    /\ pc = "done"
    /\ \E x, y \in 1..Len(log.examined) :
          /\ log.examined[x].offer.visible_from > log.examined[x].at
          /\ ~log.examined[x].upserted
          /\ {r \in store : r.id = log.examined[x].offer.id} = {}
          /\ log.examined[y].offer.visible_from = log.examined[y].at
          /\ log.examined[y].upserted

\* C4: a fetch failure for one (destination, date) pair does not abort the
\* run: the run never ends with the flight source's error.
C4_FetchFailureTolerated == ~(pc = "raised" /\ error = "RuntimeError")

\* C5: for the same source data the sequential and the concurrent mode give
\* the same fetched lists for every pair and date, or both raise; everything
\* after the fetch is common to the two modes, so the persisted rows agree.
C5_ModesAgree ==
    /\ pc = "fetched" =>
          LET other == Gather(~async_mode, hotel_fetcher, upstream[Airport(i)],
                              Airport(i), CityId(i), dates[j], Last(log.fetched).at)
          IN  other.error = "" /\ other.flights = flights /\ other.hotels = hotels
    /\ (pc = "raised" /\ error \in {"RuntimeError", "TypeError", "AttributeError"}) =>
          Gather(~async_mode, hotel_fetcher, upstream[Airport(i)],
                 Airport(i), CityId(i), dates[j], now).error # ""

\* a concurrent fetch that delivered offers
C5_Witness == pc = "fetched" /\ async_mode /\ flights # <<>>

\* C6: with destination lists of lengths m and n the run fetches for exactly
\* the min(m, n) complete positions, each date in turn, warns once for each
\* unpaired position, and no run ends in an exception at an unpaired position.
C6_PositionalPairs ==
    LET m == Len(flight_destinations)
        n == Len(hotel_destinations)
        c == Min(m, n)
        d == Len(dates)
    IN  /\ \A x \in 1..Len(log.fetched) : log.fetched[x].i \in 1..c
        /\ \A x \in 1..Len(log.warnings) : log.warnings[x][1] \in (c + 1)..Max(m, n)
        /\ pc = "raised" => i \in 1..c
        /\ pc = "done" =>
              /\ Len(log.fetched) = c * d
              /\ \A x \in 1..Len(log.fetched) :
                    /\ log.fetched[x].i = ((x - 1) \div d) + 1
                    /\ log.fetched[x].j = ((x - 1) % d) + 1
              /\ Len(log.warnings) = Max(m, n) - c
              /\ \A x \in 1..Len(log.warnings) : log.warnings[x][1] = c + x

\* two flight destinations and one hotel destination: one pair fetched, one
\* warning, the run committed
C6_Witness ==
    /\ pc = "done"
    /\ Len(flight_destinations) = 2 /\ Len(hotel_destinations) = 1
    /\ Len(log.fetched) = Len(dates)
    /\ Len(log.warnings) = 1
    /\ store # {}

\* C7: in flights-only mode no hotel source is built or called, and the
\* offers upserted are the fetched flight offers themselves, each once per
\* fetch and in the order fetched, under their own ids.
C7_FlightsOnly ==
    (runs > 0 /\ (flights_only \/ ~hotels_enabled)) =>
        /\ hotel_fetcher = "None"
        /\ log.hotel_calls = 0
        /\ hotels = <<>>
        /\ pc \in {"loop", "done"} => ExaminedOffers = FetchedFlights(log.fetched)
        /\ \A x \in 1..Len(log.examined) :
              LET e == log.examined[x]
              IN  /\ e.upserted = ~(e.offer.visible_from > e.at)
                  /\ e.offer \in Range(FetchedFlights(log.fetched))
                  /\ (e.upserted /\ pc # "raised") =>
                        \E r \in session : r.id = e.offer.id
                  /\ (e.upserted /\ pc # "raised" /\ x = Len(log.examined)) =>
                        \E r \in session :
                            /\ r.id = e.offer.id
                            /\ r.location = e.offer.location
                            /\ r.price_per_person = e.offer.price_per_person

\* a committed flights-only run that upserted two flights of one fetch
C7_Witness ==
    /\ pc = "done"
    /\ flights_only /\ hotels_enabled
    /\ Len(log.examined) >= 2
    /\ log.examined[1].upserted /\ log.examined[2].upserted
    /\ log.examined[1].offer.id # log.examined[2].offer.id
    /\ \E r \in store : r.id = log.examined[2].offer.id

\* the positions (flight, hotel) the combiner must join
Matching ==
    {p \in (1..Len(flights)) \X (1..Len(hotels)) :
        /\ flights[p[1]].location = hotels[p[2]].location
        /\ flights[p[1]].date \div 24 = hotels[p[2]].date \div 24}

\* the place of a matching position in flights-outer, hotels-inner order
Rank(p) ==
    Cardinality({q \in Matching : q[1] < p[1] \/ (q[1] = p[1] /\ q[2] <= p[2])})

AfterCombine == pc \in {"offers", "loop", "done"} /\ hotel_fetcher # "None"

\* C8: _combine_offers returns one combined offer for every (flight, hotel)
\* with equal locations and dates on the same calendar day, and none for any
\* other pair; k hotels matching one flight give k offers.
C8_OnePerMatch ==
    AfterCombine =>
        /\ Len(offers) = Cardinality(Matching)
        /\ \A p \in Matching :
              offers[Rank(p)].id = flights[p[1]].id \o "-" \o hotels[p[2]].id

\* one flight joined with two hotels, one of them at another time of the same
\* day, beside a pair that does not match
C8_Witness ==
    /\ AfterCombine
    /\ \E a \in 1..Len(flights) : Cardinality({p \in Matching : p[1] = a}) = 2
    /\ \E p \in Matching : flights[p[1]].date # hotels[p[2]].date
    /\ Cardinality(Matching) < Len(flights) * Len(hotels)

\* C9: a combined offer has id <flight.id>-<hotel.id>, the sums of the two
\* prices and of the two average prices, the hotel's rating, stars and beach
\* distance, the flight's direct, duration, date and location, and the larger
\* attraction_score.
C9_CombinedFields ==
    AfterCombine =>
        \A p \in Matching :
            LET o == offers[Rank(p)]
                f == flights[p[1]]
                h == hotels[p[2]]
            IN  /\ o.id = f.id \o "-" \o h.id
                /\ o.price_per_person = f.price_per_person + h.price_per_person
                /\ o.avg_price = f.avg_price + h.avg_price
                /\ o.hotel_rating = h.hotel_rating
                /\ o.stars = h.stars
                /\ o.distance_from_beach = h.distance_from_beach
                /\ o.direct = f.direct
                /\ o.total_duration = f.total_duration
                /\ o.date = f.date
                /\ o.location = f.location
                /\ o.attraction_score >= f.attraction_score
                /\ o.attraction_score >= h.attraction_score
                /\ o.attraction_score \in {f.attraction_score, h.attraction_score}

\* two combined offers, one with the hotel's attraction_score the larger and
\* one with the flight's
C9_Witness ==
    /\ AfterCombine
    /\ \E p, q \in Matching :
          /\ flights[p[1]].attraction_score < hotels[p[2]].attraction_score
          /\ flights[q[1]].attraction_score > hotels[q[2]].attraction_score
          /\ flights[p[1]].direct # hotels[p[2]].direct

\* C10: the visible_from of a combined offer is the later of the flight's and
\* the hotel's, so it is never earlier than either.
C10_VisibleFromLater ==
    AfterCombine =>
        \A p \in Matching :
            LET v == offers[Rank(p)].visible_from
                f == flights[p[1]].visible_from
                h == hotels[p[2]].visible_from
            IN  v >= f /\ v >= h /\ v \in {f, h}

\* one combined offer whose hotel is visible later than its flight and one
\* whose flight is visible later than its hotel
C10_Witness ==
    /\ AfterCombine
    /\ \E p, q \in Matching :
          /\ flights[p[1]].visible_from < hotels[p[2]].visible_from
          /\ flights[q[1]].visible_from > hotels[q[2]].visible_from

\* the seven numeric fields of an Offer
NumericFields == {"price_per_person", "avg_price", "hotel_rating", "stars",
                  "distance_from_beach", "total_duration", "attraction_score"}

\* C11: constructing an Offer fails whenever any one of the seven numeric
\* fields is negative and succeeds when all seven are non-negative.
C11_OfferValidation ==
    built.tried =>
        (built.raised <=> \E f \in NumericFields : built.args[f] < 0)

\* a construction refused for a negative stars alone, every other field valid
C11_Witness ==
    /\ built.tried
    /\ built.raised
    /\ built.args.stars < 0
    /\ \A f \in NumericFields \ {"stars"} : built.args[f] > 0

\* a float lies in [0, 100]
InRange(v) == RLe(R(0), v) /\ RLe(v, R(100))

\* C12: each of the seven feature functions returns a value in [0, 100] for
\* every valid Offer and every preference input.
C12_FeaturesInRange ==
    call.made => \A name \in FeatureNames : InRange(call.features[name])

\* C13: steal_score returns the sum over the seven features of the feature
\* value times its weight in the table, clamped to [0, 100]; a feature the
\* table has no entry for contributes 0.
C13_WeightedSum ==
    call.made =>
        LET Weight(name) == IF name \in DOMAIN call.table THEN call.table[name]
                            ELSE R(0)
            Term(name) == RMul(call.features[name], Weight(name))
            sum == RAdd(Term("discount_pct"),
                   RAdd(Term("absolute_price_score"),
                   RAdd(Term("hotel_quality"),
                   RAdd(Term("flight_comfort"),
                   RAdd(Term("urgency_score"),
                   RAdd(Term("novelty_score"), Term("category_match")))))))
        IN  /\ RLt(sum, R(0)) => call.score = R(0)
            /\ RLt(R(100), sum) => call.score = R(100)
            /\ InRange(sum) => call.score = sum

\* a call under a table that lacks features whose values are not zero, with
\* a score strictly inside the range
C13_Witness ==
    /\ call.made
    /\ \E name \in FeatureNames :
          /\ name \notin DOMAIN call.table
          /\ RLt(R(0), call.features[name])
    /\ RLt(R(0), call.score)
    /\ RLt(call.score, R(100))

\* C14: the price limit of absolute_price_score is user_prefs.max_price when
\* that is present and parses as a positive number, and offer.avg_price in
\* every other case.
C14_PriceLimit ==
    call.made =>
        LET max_price == call.user_prefs.max_price
            limit == IF max_price.tag = "num" /\ max_price.val > 0
                     THEN R(max_price.val)
                     ELSE R(call.offer.avg_price)
        IN  /\ call.limit = limit
            /\ call.features["absolute_price_score"] =
                   absolute_price_score(call.offer, limit)

\* the source of overrides the chain settles on: the inline setting when it
\* is well formed, otherwise the file when it is well formed, otherwise none
WellFormed(source) ==
    /\ source.tag = "object"
    /\ \A key \in DOMAIN source.val : source.val[key].tag = "num"

Chosen ==
    IF WellFormed(env_json) THEN env_json.val
    ELSE IF WellFormed(weights_file) THEN weights_file.val
    ELSE <<>>

\* C15: overrides are taken from the inline setting when it is well formed,
\* otherwise from the file when it is well formed, otherwise none are
\* applied; a malformed source changes no weight.
C15_OverrideChain ==
    imported = "loaded" =>
        /\ DOMAIN weights = FeatureNames \cup DOMAIN Chosen
        /\ \A name \in DOMAIN weights :
              weights[name] = IF name \in DOMAIN Chosen THEN Chosen[name].val
                              ELSE DEFAULT_WEIGHTS[name]

\* the inline object holds a weight float() rejects beside a good one, and
\* the file's override is the one in force
C15_Witness ==
    /\ imported = "loaded"
    /\ env_json.tag = "object"
    /\ ~WellFormed(env_json)
    /\ \E key \in DOMAIN env_json.val : env_json.val[key].tag = "num"
    /\ WellFormed(weights_file)
    /\ weights["novelty_score"] = R(3)

\* C16: after loading, the table holds all seven default names, a feature
\* the applied override does not name keeps its default weight, a feature it
\* names has the override's value, and DEFAULT_WEIGHTS is never modified.
C16_DefaultsKept ==
    /\ defaults = DEFAULT_WEIGHTS
    /\ imported = "loaded" =>
          /\ FeatureNames \subseteq DOMAIN weights
          /\ \A name \in FeatureNames \ DOMAIN Chosen :
                weights[name] = DEFAULT_WEIGHTS[name]
          /\ \A name \in FeatureNames \cap DOMAIN Chosen :
                weights[name] = Chosen[name].val

\* an override of one feature is in force, away from its default
C16_Witness ==
    /\ imported = "loaded"
    /\ "discount_pct" \in DOMAIN Chosen
    /\ weights["discount_pct"] # DEFAULT_WEIGHTS["discount_pct"]
    /\ weights["hotel_quality"] = DEFAULT_WEIGHTS["hotel_quality"]

\* C17: two calls of steal_score with the same offer, the same preferences
\* and the same weight table return the same score, whenever they are made.
C17_Deterministic ==
    (/\ call.made
     /\ prev.made
     /\ call.offer = prev.offer
     /\ call.user_prefs = prev.user_prefs
     /\ call.table = prev.table)
        => call.score = prev.score

\* C18: a locations, max_price or min_stars entry that is absent, of the
\* wrong type, unparseable or non-positive contributes 0 to category_match
\* and the other entries still contribute their share: 40 for the location,
\* up to 30 for the price, up to 30 for the stars.
C18_CategoryMatch ==
    call.made =>
        LET offer == call.offer
            locations == call.user_prefs.locations
            max_price == call.user_prefs.max_price
            min_stars == call.user_prefs.min_stars
            location_share ==
                IF locations.tag = "list" /\ offer.location \in locations.val
                THEN 40 ELSE 0
            price_share ==
                IF max_price.tag = "num" /\ max_price.val > 0
                THEN IF offer.price_per_person >= max_price.val THEN R(0)
                     ELSE Rat(30 * (max_price.val - offer.price_per_person),
                              max_price.val)
                ELSE R(0)
            stars_share ==
                IF min_stars.tag = "num" /\ min_stars.val > 0
                THEN IF offer.stars >= min_stars.val THEN R(30)
                     ELSE Rat(30 * offer.stars, min_stars.val)
                ELSE R(0)
        IN  call.features["category_match"] =
                RAdd(R(location_share), RAdd(price_share, stars_share))

\* an unparseable max_price between a matching location and a min_stars the
\* offer meets: 40 + 0 + 30
C18_Witness ==
    /\ call.made
    /\ call.user_prefs.max_price.tag = "bad"
    /\ call.user_prefs.locations.tag = "list"
    /\ call.offer.location \in call.user_prefs.locations.val
    /\ call.user_prefs.min_stars.tag = "num"
    /\ call.features["category_match"] = R(70)

\* the time from which a returned record says it is visible
VisibleFrom(record) == record.visible_from.iso

\* C19: a premium reader gets only records with visible_from <= now, a free
\* reader only records with visible_from <= now minus one hour; so whatever
\* a free reader gets is visible to a premium reader at the same instant,
\* and no reader gets a record whose visible_from is in the future.
C19_TierVisibility ==
    reply.asked =>
        \A x \in DOMAIN reply.records :
            /\ reply.account_type = "premium" => VisibleFrom(reply.records[x]) <= reply.at
            /\ reply.account_type = "free" => VisibleFrom(reply.records[x]) <= reply.at - 1
            /\ VisibleFrom(reply.records[x]) <= reply.at

\* a free reader is answered with fewer records than asked for while the
\* table holds a record that became visible within the last hour and that
\* passes the other filters
C19_Witness ==
    /\ reply.asked
    /\ reply.account_type = "free"
    /\ Len(reply.records) = 1
    /\ reply.limit = 2
    /\ \E record \in store :
          /\ record.visible_from = reply.at
          /\ ~reply.price_min.given /\ ~reply.price_max.given /\ ~reply.direct_only

\* the records of the table the request is entitled to, as dictionaries
Eligible ==
    {_record_to_dict(record) : record \in
        {r \in store :
            /\ r.visible_from <= (IF reply.account_type = "free"
                                   THEN reply.at - 1 ELSE reply.at)
            /\ reply.price_min.given => r.price_per_person >= reply.price_min.val
            /\ reply.price_max.given => r.price_per_person <= reply.price_max.val
            /\ reply.direct_only => r.direct}}

\* C20: the answer holds only eligible records, each once, as many as there
\* are up to limit, in descending order of steal_score, and no eligible
\* record left out scores higher than one returned.
C20_FilterOrderLimit ==
    reply.asked =>
        LET records == reply.records
            returned == {records[x] : x \in DOMAIN records}
        IN  /\ returned \subseteq Eligible
            /\ Cardinality(returned) = Len(records)
            /\ Len(records) = Min(reply.limit, Cardinality(Eligible))
            /\ Len(records) <= reply.limit
            /\ \A a \in DOMAIN records, b \in DOMAIN records :
                  a < b => RLe(records[b].steal_score, records[a].steal_score)
            /\ \A left \in Eligible \ returned, kept \in returned :
                  ~RLt(kept.steal_score, left.steal_score)

\* the limit cuts the answer short of the eligible records, a price bound
\* is met exactly by a returned record, and the first record outscores the
\* second
C20_Witness ==
    /\ reply.asked
    /\ Len(reply.records) = 2
    /\ Cardinality(Eligible) > 2
    /\ reply.price_min.given
    /\ \E x \in DOMAIN reply.records :
          reply.records[x].price_per_person = reply.price_min.val
    /\ RLt(reply.records[2].steal_score, reply.records[1].steal_score)

\* C21: every record of the store has a steal_score in [0, 100], whatever
\* weight table the scoring module loaded.
C21_StoredScoreInRange ==
    \A record \in store : InRange(record.steal_score)

\* the ids of the offers the current run has upserted
UpsertedIds ==
    {log.examined[x].offer.id : x \in {y \in DOMAIN log.examined : log.examined[y].upserted}}

\* C22: no step removes a record's id from the store, and a step changes a
\* stored record only if the run has upserted an offer with that record's id;
\* every other record stays as it was.
C22_OnlyUpsertsChange ==
    [][\A record \in store :
          /\ \E kept \in store' : kept.id = record.id
          /\ record \notin store' => record.id \in UpsertedIds]_vars

\* a committed run that rewrote one of two stored records and left the
\* other, whose id it did not produce, as it was
C22_Witness ==
    /\ pc = "done"
    /\ log.before = {OldRow("F1-H2"), OldRow("F9-H9")}
    /\ OldRow("F9-H9") \in store
    /\ OldRow("F1-H2") \notin store
    /\ "F1-H2" \in UpsertedIds
    /\ "F9-H9" \notin UpsertedIds

\* C23: the committed store changes in one step only, the commit that ends a
\* run without an exception, and then takes all the upserts of the run at
\* once; a step that ends a run with an exception leaves it as it was.
C23_AtomicCommit ==
    [][/\ store' # store =>
            /\ pc = "loop" /\ pc' = "done"
            /\ error = ""
            /\ store' = session
            /\ \A id \in UpsertedIds : \E record \in store' : record.id = id
       /\ pc' = "raised" => store' = store]_vars

\* a run that upserted offers of one pair and then ended with an exception,
\* none of its upserts being in the store
C23_Witness ==
    /\ pc = "raised"
    /\ UpsertedIds # {}
    /\ \A id \in UpsertedIds : \A record \in store : record.id # id

\* the rows left by the upserts of the examined offers taken in the given
\* order, each with the score it was given
RECURSIVE Replay(_, _)
Replay(rows, entries) ==
    IF entries = <<>> THEN rows
    ELSE Replay(IF Head(entries).upserted
                THEN _upsert_offer(rows, Head(entries).offer, Head(entries).score)
                ELSE rows,
                Tail(entries))

\* C24: the records a committed run leaves are the same in whatever order
\* the offers of its pairs and dates are processed.
C24_OrderIndependent ==
    pc = "done" =>
        \A p \in Permutations(1..Len(log.examined)) :
            Replay(log.before, [x \in 1..Len(log.examined) |-> log.examined[p[x]]]) = store

\* the fetches whose offers have all been dealt with
FinishedFetches ==
    IF pc \in {"fetched", "offers"} /\ log.fetched # <<>>
    THEN SubSeq(log.fetched, 1, Len(log.fetched) - 1)
    ELSE log.fetched

\* the offers of the pair in hand that have been dealt with
ExaminedOfPair == IF pc = "offers" THEN SubSeq(offers, 1, k - 1) ELSE <<>>

\* C25: the fetches of a run follow the order of the destination pairs and,
\* inside a pair, the order of the dates, no position is fetched twice, the
\* offers examined so far are those of the finished fetches, in order,
\* followed by the first offers of the pair in hand, and the offers of a
\* combined pair stand in flights-outer, hotels-inner order.
C25_ProcessingOrder ==
    /\ \A x \in DOMAIN log.fetched, y \in DOMAIN log.fetched :
          x < y => \/ log.fetched[x].i < log.fetched[y].i
                   \/ /\ log.fetched[x].i = log.fetched[y].i
                      /\ log.fetched[x].j < log.fetched[y].j
    /\ \A x \in DOMAIN log.fetched :
          \A f \in Range(log.fetched[x].flights) :
              /\ f.location = flight_destinations[log.fetched[x].i]
              /\ f.date = _parse_date(dates[log.fetched[x].j], log.fetched[x].at)
    /\ hotel_fetcher = "None" =>
          ExaminedOffers = FetchedFlights(FinishedFetches) \o ExaminedOfPair
    /\ (hotel_fetcher # "None" /\ pc \in {"offers", "loop", "done"}) =>
          /\ offers = [x \in 1..Cardinality(Matching) |->
                          LET p == CHOOSE q \in Matching : Rank(q) = x
                          IN  CombinedOffer(flights[p[1]], hotels[p[2]])]
          /\ ExaminedOffers = IF pc = "offers" THEN ExaminedOfPair ELSE offers

\* a committed run over two pairs and two dates: four fetches and the two
\* offers of each examined
C25_Witness ==
    /\ pc = "done"
    /\ Len(log.fetched) = 4
    /\ Len(log.examined) = 8
    /\ log.fetched[2].i = 1 /\ log.fetched[2].j = 2
    /\ log.fetched[3].i = 2 /\ log.fetched[3].j = 1
    /\ log.examined[3].offer.date # log.examined[2].offer.date
    /\ log.examined[5].offer.location # log.examined[4].offer.location

\* C26: with a hotel source, the fetch of a pair hands its hotels to the
\* combiner with each location set to the flight destination, so it does not
\* end the run with the hotel source's own failure; without a hotel source
\* no hotel is fetched or re-tagged.
C26_HotelsRetagged ==
    /\ hotel_fetcher # "None" =>
          /\ ~(pc = "raised" /\ error \in {"TypeError", "AttributeError"})
          /\ pc \in {"fetched", "offers"} =>
                \A h \in Range(hotels) : h.location = Airport(i)
    /\ hotel_fetcher = "None" => (hotels = <<>> /\ log.hotel_calls = 0)

\* the Offers a run holds
HeldOffers == Range(flights) \cup Range(hotels) \cup Range(offers)

Buildable(data) == SelectSeq(data, LAMBDA item : item.grandTotal >= 0 /\ item.arrival >= item.departure)

\* the ids of a sequence of raw items or of Offers
ItemIds(data) == [x \in DOMAIN data |-> IdStr(data[x].id)]
OfferIds(os) == [x \in DOMAIN os |-> os[x].id]

C29_JoinedBeforeProcessing ==
    /\ (async_mode /\ hotel_fetcher # "None") =>
          ~(pc = "raised" /\ error = "AttributeError")
    /\ \A a \in tasks, b \in tasks : a.i = b.i /\ a.j = b.j
    /\ \A a \in tasks : pc = "gather" /\ a.i = i /\ a.j = j
    /\ pc \in {"fetched", "offers"} =>
          /\ tasks = {}
          /\ log.fetched # <<>>
          /\ Last(log.fetched).i = i /\ Last(log.fetched).j = j
    /\ pc = "offers" => offers = Last(log.fetched).flights

\* the position of the first answer of the upstream that makes an attempt
\* succeed, 0 when none of them does
FirstSuccess(answers) ==
    IF \E n \in 1..Len(answers) : Succeeds(answers[n])
    THEN CHOOSE n \in 1..Len(answers) :
            /\ Succeeds(answers[n])
            /\ \A m \in 1..(n - 1) : ~Succeeds(answers[m])
    ELSE 0

\* the call is over
FetchOver == fetch.phase \in {"returned", "raised"}

\* the requests made and the waits kept after failed attempts, at every
\* moment of a call
FetchBounded ==
    fetch.phase # "idle" =>
       /\ fetch.requests <= MaxAttempts
       /\ Len(fetch.waits) <= 2
       /\ \A n \in 1..Len(fetch.waits) : fetch.waits[n] = 2 ^ (n - 1)
       /\ \A n \in 1..fetch.requests : n < fetch.requests => ~Succeeds(fetch.answers[n])
       /\ fetch.phase = "returned" =>
             LET first == FirstSuccess(fetch.answers)
             IN  /\ first # 0
                 /\ fetch.requests = first
                 /\ Len(fetch.waits) = first - 1
                 /\ fetch.result = _map_offers(fetch.answers[first].data, "PAR",
                                               "2024-01-01", now)
                 /\ fetch.result = fetch_offers([failures |-> first - 1,
                                                 data |-> fetch.answers[first].data],
                                                "PAR", "2024-01-01", now).offers
       /\ fetch.phase = "raised" =>
             /\ FirstSuccess(fetch.answers) = 0
             /\ fetch.requests = MaxAttempts
             /\ fetch.waits = <<1, 2>>
             /\ fetch_offers([failures |-> MaxAttempts, data |-> <<>>], "PAR",
                             "2024-01-01", now).raised

\* C30: a call of fetch_offers makes at most three requests, waits 1 s after
\* the first failed attempt and 2 s after the second, returns the mapped
\* offers of the first attempt that succeeds and makes no request after it,
\* raises when the third attempt fails, and comes to its end whatever the
\* upstream answers.
C30_BoundedRetry == []FetchBounded /\ <>FetchOver

\* the third attempt succeeded after two failed ones and two waits
C30_Witness ==
    /\ fetch.phase = "returned"
    /\ fetch.requests = 3
    /\ fetch.waits = <<1, 2>>
    /\ fetch.result # <<>>

\* the upstream refuses the request for good: the same status at every attempt
Permanent(answers) ==
    \A n \in 1..Len(answers) : answers[n].kind = "ResponseError" /\ answers[n].status = 401

\* C31: when the upstream refuses the credentials, the flight fetch makes one
\* request, keeps no wait, and ends by returning no offers rather than by
\* raising.
C31_PermanentNotRetried ==
    (fetch.phase # "idle" /\ Permanent(fetch.answers)) =>
       /\ fetch.requests <= 1
       /\ fetch.waits = <<>>
       /\ fetch.phase # "raised"

\* the hotel items of a list whose Offer can be built
WellFormedHotels(items, checkin, t) ==
    SelectSeq(items, LAMBDA item : /\ item.price.kind = "number"
                                    /\ item.price.val >= 0
                                    /\ ParsesDate(checkin))

\* the Offers of a list of well-formed hotel items
OffersOf(items, checkin, t) ==
    [n \in 1..Len(items) |-> HotelOffer(items[n], "PAR", checkin, t)]

\* C32: a fetch from the Booking source, on the sync path, the async path or
\* a cache hit, never raises the ValueError of a malformed record, and when
\* it returns it returns the offers of the well-formed records of the data
\* it was served.
C32_MalformedSkipped ==
    fetch.last.path # "none" =>
       /\ fetch.last.raised # "ValueError"
       /\ fetch.last.raised = "" =>
             fetch.last.offers =
                OffersOf(WellFormedHotels(fetch.last.data, fetch.checkin, now),
                         fetch.checkin, now)

\* a comma-separated value that names nothing
Blank(pieces) == \A n \in 1..Len(pieces) : pieces[n] \in {"", " "}

\* the database URL, a credential of the flight source, or the key of the
\* hotel source a run with hotels needs, is not set
ConfigurationMissing ==
    \/ ~environ.DATABASE_URL
    \/ ~environ.AMADEUS_API_KEY
    \/ ~environ.AMADEUS_API_SECRET
    \/ (~flights_only /\ hotels_enabled /\ ~environ.BOOKING_RAPIDAPI_KEY)

\* C33: a run that lacks the database URL, a credential of the flight source
\* or the key of a hotel source it is to build ends with RuntimeError at its
\* start: no fetch has been made, no hotel call, and neither the session nor
\* the store holds a record; and when one of the three lists of the
\* environment is empty, run raises and run_pipeline is never called.
C33_RefusedAtStart ==
    /\ (Blank(environ.FLIGHT_DESTS) \/ Blank(environ.HOTEL_DESTS) \/ Blank(environ.DATES)) =>
          /\ pc \in {"off", "refused"}
          /\ runs = 0
          /\ pc = "refused" => error = "RuntimeError"
    /\ ConfigurationMissing =>
          /\ pc \in {"off", "refused", "idle", "raised"}
          /\ pc = "raised" => error = "RuntimeError"
          /\ log.fetched = <<>> /\ log.hotel_calls = 0 /\ log.examined = <<>>
          /\ session = {} /\ store = {}

\* a run without the Amadeus secret was started and has raised; and so has
\* its retry
C33_Witness ==
    /\ ~environ.AMADEUS_API_SECRET
    /\ environ.DATABASE_URL
    /\ ~ListMissing(environ)
    /\ runs = 2
    /\ pc = "raised"

\* the offers of the first n pages of an upstream, in page order
RECURSIVE OffersOfPages(_, _, _)
OffersOfPages(pages, n, t) ==
    IF n = 0 THEN <<>>
    ELSE OffersOfPages(pages, n - 1, t)
         \o Sky_map_offers(pages[n].itineraries, "PAR", t)

\* the position of the first page of an upstream that names no next page
LastPage(pages) ==
    CHOOSE n \in 1..Len(pages) :
        /\ NoToken(pages[n])
        /\ \A m \in 1..(n - 1) : ~NoToken(pages[m])

\* the pages are requested one after another and their offers kept in page
\* order; no page after the first one without a token is requested
PagedInOrder(c, pages, t) ==
    /\ c.pages_fetched <= LastPage(pages)
    /\ c.status = "paging" => c.page = c.pages_fetched
    /\ c.status # "raised" => c.offers = OffersOfPages(pages, c.pages_fetched, t)
    /\ c.status = "returned" =>
          \A n \in 1..c.pages_fetched : pages[n].ok

\* C34: fetch_offers with max_pages = k makes at most k requests; it stops
\* at the first response without a nextPageToken or after k requests,
\* whichever comes first, and what it returns is the offers of the pages it
\* requested, in page order.
C34_PagesBounded ==
    fetch.phase = "skyscanner" =>
       /\ PagedInOrder(fetch.sync, fetch.pages, now)
       /\ fetch.max_pages.given => fetch.sync.pages_fetched <= fetch.max_pages.val
       /\ fetch.sync.status = "returned" =>
             \/ fetch.sync.pages_fetched = LastPage(fetch.pages)
             \/ /\ fetch.max_pages.given
                /\ fetch.sync.pages_fetched = fetch.max_pages.val

\* what a caller sees of a Booking fetch: the exception or the offers
Outcome(out) == [raised |-> out.raised, offers |-> out.offers]

\* from the state the Booking source is in, both ways of fetching end alike
BookingAsyncMatchesSync ==
    fetch.phase = "booking" =>
       Outcome(Booking_async_fetch_offers(fetch, now))
          = Outcome(Booking_fetch_offers(fetch, now))

\* against the same upstream, a finished async call of the Skyscanner source
\* and a finished sync call without max_pages ended alike
SkyscannerAsyncMatchesSync ==
    (/\ fetch.phase = "skyscanner"
     /\ ~fetch.max_pages.given
     /\ fetch.sync.status \in {"returned", "raised"}
     /\ fetch.async.status \in {"returned", "raised"}) =>
       /\ fetch.async.status = fetch.sync.status
       /\ fetch.async.pages_fetched = fetch.sync.pages_fetched
       /\ fetch.sync.status = "returned" => fetch.async.offers = fetch.sync.offers

\* C35: for the same upstream responses and the same cache state,
\* async_fetch_offers ends as fetch_offers does, with the same offers or the
\* same failure, for the Booking source and, without max_pages, for the
\* Skyscanner source.
C35_AsyncMatchesSync == BookingAsyncMatchesSync /\ SkyscannerAsyncMatchesSync

\* C36: a record a reader of some tier was given is, at every later moment
\* and whatever runs were committed since, still in the store and still
\* visible to that tier, and its stored visible_from is no later than the one
\* the reader saw.
C36_StaysVisible ==
    reply.asked =>
       \A x \in DOMAIN reply.records :
          \E record \in store :
             /\ record.id = reply.records[x].id
             /\ record.visible_from <= VisibleFrom(reply.records[x])
             /\ record.visible_from <= (IF reply.account_type = "free" THEN now - 1 ELSE now)

\* the offers of the run that were visible when they were examined, in
\* processing order
VisibleExamined ==
    SelectSeq(log.examined, LAMBDA e : e.offer.visible_from <= e.at)

\* the last entry of a sequence of examined offers that carries the id
LastWith(entries, id) ==
    entries[CHOOSE x \in DOMAIN entries :
                /\ entries[x].offer.id = id
                /\ \A y \in DOMAIN entries : entries[y].offer.id = id => y <= x]

\* C37: after a committed run the store holds, for every id among the
\* visible offers of the run, one record, and that record is the last offer
\* processed with that id, with its score; so the run has written as many
\* records as its visible offers have distinct ids, and the other records are
\* those the store held before.
C37_LastOfferWins ==
    pc = "done" =>
       LET ids == {VisibleExamined[x].offer.id : x \in DOMAIN VisibleExamined}
           written == {record \in store : record.id \in ids}
       IN  /\ \A id \in ids :
                 LET e == LastWith(VisibleExamined, id)
                 IN  {record \in store : record.id = id} = {RecordOf(e.offer, e.score)}
           /\ Cardinality(written) = Cardinality(ids)
           /\ store \ written = {record \in log.before : record.id \notin ids}

\* a committed run that processed two different offers with one id, the
\* first of which is not the record kept
C37_Witness ==
    /\ pc = "done"
    /\ \E x \in DOMAIN log.examined, y \in DOMAIN log.examined :
          /\ x < y
          /\ log.examined[x].upserted /\ log.examined[y].upserted
          /\ log.examined[x].offer.id = log.examined[y].offer.id
          /\ log.examined[x].offer # log.examined[y].offer
          /\ RecordOf(log.examined[x].offer, log.examined[x].score) \notin store

\* the seven numeric fields of an offer or a record are zero or more
NonNegative(o) ==
    /\ o.price_per_person >= 0
    /\ o.avg_price >= 0
    /\ o.hotel_rating >= 0
    /\ o.stars >= 0
    /\ o.distance_from_beach >= 0
    /\ o.total_duration >= 0
    /\ o.attraction_score >= 0

\* C38: when the flights and hotels handed to _combine_offers have no
\* negative numeric field, combining them does not end the run with the
\* constructor's ValueError, and no combined offer, no offer examined for
\* scoring and no record the run has upserted has a negative numeric field.
C38_CombinedValid ==
    (/\ hotel_fetcher # "None"
     /\ \A o \in Range(flights) \cup Range(hotels) : NonNegative(o)) =>
       /\ ~(pc = "raised" /\ error = "ValueError")
       /\ \A o \in Range(offers) : NonNegative(o)
       /\ \A e \in Range(log.examined) : NonNegative(e.offer)
       /\ \A record \in session : record.id \in UpsertedIds => NonNegative(record)

\* two flights and two hotels were combined, and a combined offer with a
\* hotel that costs more than the flight has been upserted and committed
C38_Witness ==
    /\ pc = "done"
    /\ hotel_fetcher # "None"
    /\ Len(flights) = 2 /\ Len(hotels) = 2
    /\ \E e \in Range(log.examined), f \in Range(flights), h \in Range(hotels) :
          /\ e.upserted
          /\ e.offer = CombinedOffer(f, h)
          /\ h.price_per_person > f.price_per_person
          /\ \E record \in store : record.id = e.offer.id

\* a hotel source is in use: neither flights_only nor HOTELS_ENABLED=0
WithHotels == ~flights_only /\ hotels_enabled

\* some hotel of the pair is for the destination and the calendar day of
\* some flight of the pair
SomeHotelFits ==
    \E f \in Range(flights), h \in Range(hotels) :
        f.location = h.location /\ f.date \div 24 = h.date \div 24

\* C39: with a hotel source, a pair whose hotels are none, or none for the
\* day of a flight, yields no offer: nothing of it is examined, upserted or
\* committed; and no record is ever written under the id of a flight alone,
\* every offer upserted being the combination of a flight and a hotel of the
\* pair.  Flight offers are written as they are only without a hotel source.
C39_NoFlightAlone ==
    (WithHotels /\ runs > 0) =>
       /\ (~SomeHotelFits /\ pc # "fetched") =>
             /\ offers = <<>>
             /\ log.examined = <<>>
             /\ session = store
       /\ \A e \in Range(log.examined) :
             /\ \A f \in Range(flights) : e.offer.id # f.id
             /\ \E f \in Range(flights), h \in Range(hotels) :
                   /\ e.offer.id = f.id \o "-" \o h.id
                   /\ e.offer.location = h.location
                   /\ e.offer.date \div 24 = h.date \div 24
       /\ \A record \in session, f \in Range(flights) : record.id # f.id

\* a committed run with a hotel source whose pair had flights and hotels, but
\* no hotel for the day of a flight: the store is as it was
C39_Witness ==
    /\ WithHotels
    /\ pc = "done"
    /\ flights # <<>> /\ hotels # <<>>
    /\ ~SomeHotelFits
    /\ store = log.before
    /\ log.examined = <<>>

\* the flight destination at position n has no hotel destination at its
\* position
Unpaired(n) ==
    \/ n > Len(hotel_destinations)
    \/ hotel_destinations[n] = ""

\* C40: flights-only mode does not lift the pairing of destinations: every
\* fetch made is for a position at which a non-empty hotel destination
\* stands; a run that is over has met each flight destination without one
\* with a warning and no fetch; and run raises on an empty HOTEL_DESTS,
\* FLIGHTS_ONLY=1 or not, without calling run_pipeline.
C40_FlightsOnlyStillPaired ==
    /\ \A e \in Range(log.fetched) : ~Unpaired(e.i)
    /\ pc = "done" =>
          \A n \in 1..Len(flight_destinations) :
              Unpaired(n) =>
                  \E w \in Range(log.warnings) : w[1] = n /\ w[2] = flight_destinations[n]
    /\ (pc # "off" /\ Blank(environ.HOTEL_DESTS)) =>
          /\ pc = "refused"
          /\ error = "RuntimeError"
          /\ runs = 0
          /\ log.fetched = <<>>

\* a flights-only run over two flight destinations and one hotel destination
\* has committed: the first was fetched, the second only warned about
C40_Witness ==
    /\ flights_only
    /\ pc = "done"
    /\ Len(flight_destinations) = 2
    /\ Len(hotel_destinations) = 1
    /\ \E e \in Range(log.fetched) : e.i = 1
    /\ \E w \in Range(log.warnings) : w[1] = 2

\* run has refused an empty HOTEL_DESTS although FLIGHTS_ONLY=1 and the
\* other two lists are set
C40_WitnessRefused ==
    /\ environ.FLIGHTS_ONLY
    /\ Blank(environ.HOTEL_DESTS)
    /\ ~Blank(environ.FLIGHT_DESTS) /\ ~Blank(environ.DATES)
    /\ pc = "refused"

====
